---- MODULE Spec2Model ----
(***************************************************************************)
(* Market-data dashboard backend: the upsert-keyed persistence layer       *)
(* (storage.ts), the HTTP handlers that reach it (routes.ts) and the       *)
(* per-connection periodic push over the WebSocket channel (routes.ts).    *)
(*                                                                         *)
(* Decimal columns are exact decimals, held here as integers in units of   *)
(* the column's scale: a price 175.43 of decimal(10,2) is 17543, a margin  *)
(* 0.25 of decimal(5,2) is 25.  A JavaScript number handed to the margin   *)
(* route is held in thousandths (0.255 is 255), one digit finer than the   *)
(* column, so that the column's rounding is visible.                       *)
(***************************************************************************)
EXTENDS Integers, Sequences, FiniteSets, TLC

VARIABLES
    now,        \* the wall clock read by new Date()
    db,         \* the persisted tables, by table name: each a set of rows
    seq,        \* the serial sequence behind each table's generated id
    calls,      \* the storage calls of outside callers in flight: issued, not settled
    issued,     \* how many storage calls outside callers have issued
    lastUpsert, \* per upsertable table, for each symbol the upsert the database ran last
    reqs,       \* the HTTP requests in flight, each at the storage call it awaits
    started,    \* how many HTTP requests have been received
    response,   \* the HTTP response sent last, with what the handler logged
    answered,   \* how many HTTP responses have been sent
    conns,      \* per WebSocket connection: the transport, its interval timer, what
                \* was sent and logged
    ticks,      \* the invocations of sendMarketUpdate in flight
    listening,  \* whether httpServer, which carries the WebSocket server, listens
    seeding,    \* initializeSampleData: which start of the process runs it, the
                \* statement it awaits, and what it logged
    unhandled   \* the operations whose rejection no catch block took

callVars == <<calls, issued, lastUpsert>>
reqVars == <<reqs, started, response, answered>>
pushVars == <<conns, ticks, listening>>
seedVars == <<seeding, unhandled>>
vars == <<now, db, seq, calls, issued, lastUpsert, reqs, started, response, answered,
          conns, ticks, listening, seeding, unhandled>>

(***************************************************************************)
(* Bounds of the model.                                                    *)
(***************************************************************************)
MaxTime == 1        \* the clock runs 0..MaxTime
MaxCalls == 2       \* storage calls issued by outside callers in one run
MaxReqs == 1        \* HTTP requests received in one run
MaxTicks == 1       \* firings of one connection's interval timer in one run
MaxStarts == 2      \* starts of the process over one database

(***************************************************************************)
(* JavaScript objects: a record whose domain is the set of keys present.   *)
(***************************************************************************)
\* {...a, ...b}: the keys of both, b's value winning.
Spread(a, b) ==
    [f \in DOMAIN a \cup DOMAIN b |-> IF f \in DOMAIN b THEN b[f] ELSE a[f]]

\* The records of S, and each of them with the optional key f set to a value of V.
WithOptional(S, f, V) ==
    S \cup { Spread(r, [g \in {f} |-> v]) : r \in S, v \in V }

NULL == "NULL"

(***************************************************************************)
(* The schema (shared/schema.ts).                                          *)
(***************************************************************************)
UpsertTables == {"stocks", "currencyPairs", "marketIndices"}
Tables == UpsertTables \cup {"userFavorites", "users", "newsArticles"}

Columns(t) ==
    CASE t = "stocks"        -> {"id", "symbol", "price", "marketCap", "updatedAt"}
      [] t = "currencyPairs" -> {"id", "symbol", "rate", "margin", "updatedAt"}
      [] t = "marketIndices" -> {"id", "name", "symbol", "value", "updatedAt"}
      [] t = "userFavorites" -> {"id", "userId", "itemType", "itemId", "createdAt"}
      [] t = "users"         -> {"id", "email", "role", "updatedAt"}
      [] t = "newsArticles"  -> {"id", "title", "publishedAt", "createdAt"}

\* Columns under a primary-key or unique constraint.
UniqueColumns(t) ==
    CASE t = "stocks"        -> {"id", "symbol"}
      [] t = "currencyPairs" -> {"id", "symbol"}
      [] t = "marketIndices" -> {"id", "name", "symbol"}
      [] t = "userFavorites" -> {"id"}
      [] t = "users"         -> {"id", "email"}
      [] t = "newsArticles"  -> {"id"}

DefaultMargin == 25     \* .default("0.25")

\* The value the database gives a column the INSERT does not supply.
\* (users.id is a varchar key without a default; every other id is a serial.)
ColumnDefault(t, f, id, dbNow) ==
    CASE f = "id" /\ t # "users" -> id
      [] f = "role" -> "user"
      [] f \in {"updatedAt", "createdAt"} -> dbNow
      [] f = "margin" -> DefaultMargin
      [] OTHER -> NULL

(***************************************************************************)
(* What callers hand to the upserts.  A nullable column (marketCap) or a   *)
(* defaulted one (margin, updatedAt) may be absent from the record.        *)
(***************************************************************************)
StockInputs ==
    WithOptional(
        WithOptional([symbol : {"AAPL", "MSFT"}, price : {17543, 18000}],
                     "marketCap", {"$2.75T"}),
        "updatedAt", {0})

PairSymbols == {"EUR/USD", "GBP/USD"}

PairInputs ==
    WithOptional([symbol : PairSymbols, rate : {1084200}], "margin", {30})

IndexInputs ==
    [name : {"S&P 500", "NASDAQ"}, symbol : {"SPX", "IXIC"}, value : {454738}]

UpsertOps == {"upsertStock", "upsertCurrencyPair", "upsertMarketIndex"}

TableOf(op) ==
    CASE op = "upsertStock"        -> "stocks"
      [] op = "upsertCurrencyPair" -> "currencyPairs"
      [] op = "upsertMarketIndex"  -> "marketIndices"

InputsOf(op) ==
    CASE op = "upsertStock"        -> StockInputs
      [] op = "upsertCurrencyPair" -> PairInputs
      [] op = "upsertMarketIndex"  -> IndexInputs

(***************************************************************************)
(* The database's statements.                                              *)
(***************************************************************************)
\* The row INSERT ... VALUES(values) builds: absent columns take their default.
InsertedRow(t, values, id, dbNow) ==
    [f \in Columns(t) |->
        IF f \in DOMAIN values THEN values[f] ELSE ColumnDefault(t, f, id, dbNow)]

\* UPDATE ... SET(set) of one row: only the keys present in set are assigned.
UpdatedRow(t, old, set) ==
    [f \in Columns(t) |-> IF f \in DOMAIN set THEN set[f] ELSE old[f]]

\* Does the table break one of its unique constraints?
ViolatesUnique(t, rows) ==
    \E f \in UniqueColumns(t) : \E r1, r2 \in rows : r1 # r2 /\ r1[f] = r2[f]

\* A plain INSERT into a table whose target column carries no unique constraint.
InsertWithoutConflictTarget(t, rows, target, values, set, id, dbNow) ==
    [rows |-> rows \cup {InsertedRow(t, values, id, dbNow)},
     row |-> InsertedRow(t, values, id, dbNow), error |-> FALSE]

\* INSERT ... ON CONFLICT (target) DO NOTHING: the first writer's row stays.
OnConflictDoNothing(t, rows, target, values, set, id, dbNow) ==
    LET hit == { r \in rows : r[target] = values[target] }
    IN  IF hit = {}
        THEN [rows |-> rows \cup {InsertedRow(t, values, id, dbNow)},
              row |-> InsertedRow(t, values, id, dbNow), error |-> FALSE]
        ELSE [rows |-> rows, row |-> CHOOSE r \in hit : TRUE, error |-> FALSE]

\* INSERT ... ON CONFLICT (target) DO UPDATE SET ... RETURNING *, one atomic
\* statement: the rows afterwards, the row returned, and whether it raised.
OnConflictDoUpdate(t, rows, target, values, set, id, dbNow) ==
    LET hit == { r \in rows : r[target] = values[target] }
        new == IF hit = {}
               THEN InsertedRow(t, values, id, dbNow)
               ELSE UpdatedRow(t, CHOOSE r \in hit : TRUE, set)
        after == (rows \ hit) \cup {new}
    IN  IF ViolatesUnique(t, after)
        THEN [rows |-> rows, row |-> new, error |-> TRUE]
        ELSE [rows |-> after, row |-> new, error |-> FALSE]

(***************************************************************************)
(* storage.ts: upsertStock / upsertCurrencyPair / upsertMarketIndex.       *)
(* The query object, new Date() included, is built when the method is      *)
(* called; the statement runs in the database some time later.            *)
(***************************************************************************)
\* .values({ updatedAt: new Date(), ...record }): the caller's updatedAt wins.
UpsertValuesRecordLast(record, at) == Spread([updatedAt |-> at], record)

\* .values({ ...record, updatedAt: new Date() })
UpsertValues(record, at) == Spread(record, [updatedAt |-> at])

\* A set clause that leaves the stored margin alone.
UpsertSetKeepingMargin(record, at) ==
    Spread([f \in DOMAIN record \ {"margin"} |-> record[f]], [updatedAt |-> at])

\* set: { ...record, updatedAt: new Date() }
UpsertSet(record, at) == Spread(record, [updatedAt |-> at])

\* An outside caller calls one of the upserts.  (A call equal in every argument
\* and in its time to one still in flight is not issued: the set would hold it once.)
CallUpsert(op, record) ==
    /\ issued < MaxCalls
    /\ [op |-> op, arg |-> record, at |-> now] \notin calls
    /\ issued' = issued + 1
    /\ calls' = calls \cup {[op |-> op, arg |-> record, at |-> now]}
    /\ UNCHANGED <<now, db, seq, lastUpsert, reqVars, pushVars, seedVars>>

\* The database runs the statement of the pending call c.
ExecUpsert(c) ==
    /\ c \in calls
    /\ c.op \in UpsertOps
    /\ LET t == TableOf(c.op)
           out == OnConflictDoUpdate(t, db[t], "symbol", UpsertValues(c.arg, c.at),
                                     UpsertSet(c.arg, c.at), seq[t], now)
       IN  /\ db' = [db EXCEPT ![t] = out.rows]
           /\ seq' = [seq EXCEPT ![t] = @ + 1]
           /\ lastUpsert' =
                IF out.error THEN lastUpsert
                ELSE [lastUpsert EXCEPT ![t] =
                        { w \in @ : w.arg.symbol # c.arg.symbol } \cup {[arg |-> c.arg, at |-> c.at]}]
    /\ calls' = calls \ {c}
    /\ UNCHANGED <<now, issued, reqVars, pushVars, seedVars>>

\* The database cannot be reached: the call rejects and nothing is written.
FailCall(c) ==
    /\ c \in calls
    /\ calls' = calls \ {c}
    /\ UNCHANGED <<now, db, seq, issued, lastUpsert, reqVars, pushVars, seedVars>>

\* Time passes.
Tick ==
    /\ now < MaxTime
    /\ now' = now + 1
    /\ UNCHANGED <<db, seq, callVars, reqVars, pushVars, seedVars>>

(***************************************************************************)
(* storage.ts: upsertUser.                                                 *)
(***************************************************************************)
\* What callers hand to upsertUser: the profile the identity provider reports,
\* with or without the user's id and with or without a role.
UserInputs ==
    WithOptional(
        WithOptional([email : {"alice@example.com", "carol@example.com"}],
                     "id", {"alice", "carol"}),
        "role", {"admin", "user"})

\* set: { ...userData, updatedAt: new Date() } with the role column written even
\* when the caller gave none.
UserSetWithRole(userData, at) ==
    Spread([role |-> "user"], Spread(userData, [updatedAt |-> at]))

\* set: { ...userData, updatedAt: new Date() }
UserSet(userData, at) == Spread(userData, [updatedAt |-> at])

\* insert(users).values(userData).onConflictDoUpdate({ target: users.id, set })
\* .returning(): a record without id asks for the column's default, there is
\* none, and the NOT NULL constraint of the key rejects the row.
upsertUser(rows, userData, at, dbNow) ==
    IF "id" \notin DOMAIN userData
    THEN [rows |-> rows, row |-> InsertedRow("users", userData, NULL, dbNow),
          error |-> TRUE]
    ELSE OnConflictDoUpdate("users", rows, "id", userData, UserSet(userData, at),
                            NULL, dbNow)

\* An outside caller (the sign-in callback) calls upsertUser.
CallUpsertUser(userData) ==
    /\ issued < MaxCalls
    /\ [op |-> "upsertUser", arg |-> userData, at |-> now] \notin calls
    /\ issued' = issued + 1
    /\ calls' = calls \cup {[op |-> "upsertUser", arg |-> userData, at |-> now]}
    /\ UNCHANGED <<now, db, seq, lastUpsert, reqVars, pushVars, seedVars>>

\* The database runs the statement of the pending upsertUser call c.
ExecUpsertUser(c) ==
    /\ c \in calls
    /\ c.op = "upsertUser"
    /\ db' = [db EXCEPT !["users"] = upsertUser(@, c.arg, c.at, now).rows]
    /\ calls' = calls \ {c}
    /\ UNCHANGED <<now, seq, issued, lastUpsert, reqVars, pushVars, seedVars>>

(***************************************************************************)
(* storage.ts: getUser and updateCurrencyMargin.                           *)
(***************************************************************************)
\* const [user] = await db.select().from(users).where(eq(users.id, id)):
\* the rows found, none (user is undefined) or one.
getUser(id) == { u \in db["users"] : u.id = id }

MarginPrecision == 5    \* decimal("margin", { precision: 5, scale: 2 })
MarginScale == 2

RECURSIVE Pow10(_)
Pow10(n) == IF n = 0 THEN 1 ELSE 10 * Pow10(n - 1)

\* The numeric(5,2) column reading margin.toString(): a number m, in thousandths,
\* rounded half away from zero to the column's hundredths.
NumericRound(m) ==
    LET a == IF m < 0 THEN -m ELSE m
        q == (a + 5) \div 10
    IN  IF m < 0 THEN -q ELSE q

\* "numeric field overflow": the rounded value needs more than precision digits.
NumericOverflow(h) ==
    (IF h < 0 THEN -h ELSE h) >= Pow10(MarginPrecision)

\* UPDATE currency_pairs SET margin, updated_at with no WHERE clause.
updateCurrencyMarginAllRows(rows, symbol, margin, at) ==
    {[rows |-> { UpdatedRow("currencyPairs", r,
                            [margin |-> NumericRound(margin), updatedAt |-> at]) : r \in rows },
      error |-> FALSE]}

\* UPDATE currency_pairs SET margin = margin.toString(), updated_at = new Date()
\* WHERE symbol = symbol: the outcomes the statement may have.  With no row
\* matching, whether an out-of-range margin still raises is the database
\* planner's choice.
updateCurrencyMargin(rows, symbol, margin, at) ==
    LET hit == { r \in rows : r.symbol = symbol }
        v == NumericRound(margin)
        updated == [rows |-> (rows \ hit) \cup
                        { UpdatedRow("currencyPairs", r, [margin |-> v, updatedAt |-> at])
                            : r \in hit },
                    error |-> FALSE]
        raised == [rows |-> rows, error |-> TRUE]
    IN  IF ~NumericOverflow(v) THEN {updated}
        ELSE IF hit = {} THEN {updated, raised}
        ELSE {raised}

(***************************************************************************)
(* routes.ts: PUT /api/currencies/:symbol/margin, past isAuthenticated.    *)
(***************************************************************************)
\* The JSON values req.body.margin may be.
Num(n) == [type |-> "number", num |-> n]
Str(x) == [type |-> "string", str |-> x]
Undefined == [type |-> "undefined"]

MarginBodies == {Undefined, Str("0.5"), Num(-10), Num(255), Num(500), Num(1000000)}

\* req.user.claims.sub: carol is authenticated and has no row in users.
Callers == {"alice", "bob", "carol"}

\* user?.role !== 'admin'
NotAdmin(user) == \A u \in user : u.role # "admin"

\* typeof margin !== 'number'
InvalidMarginTypeOnly(margin) == margin.type # "number"

\* typeof margin !== 'number' || margin < 0
InvalidMargin(margin) == margin.type # "number" \/ margin.num < 0

\* res.status(status).json(...), after console.error(logged) in the catch block.
Respond(r, status, logged) ==
    /\ reqs' = reqs \ {r}
    /\ response' = [status |-> status, logged |-> logged]
    /\ answered' = answered + 1

\* The request arrives: the handler calls storage.getUser and awaits it.
PutMargin(caller, body) ==
    LET r == [caller |-> caller, body |-> body, pc |-> "getUser"]
    IN  /\ started < MaxReqs
        /\ r \notin reqs
        /\ started' = started + 1
        /\ reqs' = reqs \cup {r}
        /\ UNCHANGED <<now, db, seq, callVars, response, answered, pushVars, seedVars>>

\* getUser resolves: the role check, the validation, and the call of
\* updateCurrencyMargin, whose query (new Date() included) is built here, with
\* req.params.symbol, which the handler reads only at this point.
PutMarginGetUserResolves(r, symbol) ==
    /\ r \in reqs
    /\ r.pc = "getUser"
    /\ IF NotAdmin(getUser(r.caller))
       THEN Respond(r, 403, "none")
       ELSE IF InvalidMargin(r.body)
       THEN Respond(r, 400, "none")
       ELSE LET next == [caller |-> r.caller, body |-> r.body, pc |-> "updateCurrencyMargin",
                         symbol |-> symbol, at |-> now]
            IN  /\ next \notin reqs
                /\ reqs' = (reqs \ {r}) \cup {next}
                /\ UNCHANGED <<response, answered>>
    /\ UNCHANGED <<now, db, seq, callVars, started, pushVars, seedVars>>

\* The database runs the UPDATE: 200, or the catch block's 500.
PutMarginUpdateSettles(r) ==
    /\ r \in reqs
    /\ r.pc = "updateCurrencyMargin"
    /\ \E out \in updateCurrencyMargin(db["currencyPairs"], r.symbol, r.body.num, r.at) :
         /\ db' = [db EXCEPT !["currencyPairs"] = out.rows]
         /\ IF out.error
            THEN Respond(r, 500, "numeric field overflow")
            ELSE Respond(r, 200, "none")
    /\ UNCHANGED <<now, seq, callVars, started, pushVars, seedVars>>

\* The database cannot be reached: the awaited call rejects, the catch block answers.
PutMarginStoreFails(r) ==
    /\ r \in reqs
    /\ Respond(r, 500, "storage unavailable")
    /\ UNCHANGED <<now, db, seq, callVars, started, pushVars, seedVars>>

(***************************************************************************)
(* storage.ts: addUserFavorite / removeUserFavorite.                       *)
(***************************************************************************)
FavoriteInputs ==
    [userId : {"alice", "bob"}, itemType : {"stock", "currency"}, itemId : {"AAPL", "MSFT"}]

\* INSERT INTO user_favorites VALUES ({ ...favorite, createdAt: new Date() })
addUserFavorite(rows, favorite, at, id) ==
    rows \cup {InsertedRow("userFavorites", Spread(favorite, [createdAt |-> at]), id, at)}

\* DELETE ... WHERE user_id = userId AND item_id = itemId: the item type is not compared.
removeUserFavoriteAnyType(rows, userId, itemType, itemId) ==
    { r \in rows : ~(r.userId = userId /\ r.itemId = itemId) }

\* A DELETE that removes one of the matching rows and leaves its duplicates.
removeUserFavoriteOneRow(rows, userId, itemType, itemId) ==
    LET hit == { r \in rows : r.userId = userId /\ r.itemType = itemType /\ r.itemId = itemId }
    IN  IF hit = {} THEN rows ELSE rows \ {CHOOSE r \in hit : TRUE}

\* DELETE FROM user_favorites WHERE user_id = userId AND item_type = itemType
\* AND item_id = itemId
removeUserFavorite(rows, userId, itemType, itemId) ==
    { r \in rows : ~(r.userId = userId /\ r.itemType = itemType /\ r.itemId = itemId) }

\* An outside caller calls addUserFavorite or removeUserFavorite.
CallFavorite(op, favorite) ==
    /\ issued < MaxCalls
    /\ [op |-> op, arg |-> favorite, at |-> now] \notin calls
    /\ issued' = issued + 1
    /\ calls' = calls \cup {[op |-> op, arg |-> favorite, at |-> now]}
    /\ UNCHANGED <<now, db, seq, lastUpsert, reqVars, pushVars, seedVars>>

\* The database runs the INSERT or the DELETE of the pending call c.  userId
\* references users.id: a favorite of an unknown user is rejected.
ExecFavorite(c) ==
    /\ c \in calls
    /\ \/ /\ c.op = "addUserFavorite"
          /\ seq' = [seq EXCEPT !["userFavorites"] = @ + 1]
          /\ db' = IF \E u \in db["users"] : u.id = c.arg.userId
                   THEN [db EXCEPT !["userFavorites"] =
                           addUserFavorite(@, c.arg, c.at, seq["userFavorites"])]
                   ELSE db
       \/ /\ c.op = "removeUserFavorite"
          /\ db' = [db EXCEPT !["userFavorites"] =
                      removeUserFavorite(@, c.arg.userId, c.arg.itemType, c.arg.itemId)]
          /\ UNCHANGED seq
    /\ calls' = calls \ {c}
    /\ UNCHANGED <<now, issued, lastUpsert, reqVars, pushVars, seedVars>>

(***************************************************************************)
(* Reads.  ORDER BY leaves the order of equal keys to the database: a read *)
(* is the set of lists it may return.                                      *)
(***************************************************************************)
RECURSIVE OrderByDesc(_, _)
OrderByDesc(rows, f) ==
    IF rows = {} THEN {<<>>}
    ELSE UNION { { <<r>> \o rest : rest \in OrderByDesc(rows \ {r}, f) }
                   : r \in { r \in rows : \A q \in rows : r[f] >= q[f] } }

getStocks == OrderByDesc(db["stocks"], "updatedAt")

getCurrencyPairs == OrderByDesc(db["currencyPairs"], "updatedAt")

getMarketIndices == OrderByDesc(db["marketIndices"], "updatedAt")

\* const [row] = await db.select()...where(eq(symbol)): the rows found, none or one.
getStockBySymbol(symbol) == { r \in db["stocks"] : r.symbol = symbol }

getCurrencyPairBySymbol(symbol) == { r \in db["currencyPairs"] : r.symbol = symbol }

\* A query without its LIMIT clause.
NoLimit(list, limit) == list

\* The first limit elements of a list: LIMIT limit.
Limit(list, limit) == SubSeq(list, 1, IF Len(list) < limit THEN Len(list) ELSE limit)

\* Not-a-number, as parseInt returns it.
NaN == [type |-> "NaN"]

\* .limit(limit): the query builder emits LIMIT for a number that is zero or more,
\* and no LIMIT clause for NaN or a negative number.
LimitClause(list, limit) ==
    IF limit.type = "number" /\ limit.num >= 0 THEN Limit(list, limit.num) ELSE list

\* getNewsArticles(limit), limit a JavaScript number.
getNewsArticles(limit) ==
    { LimitClause(list, limit) : list \in OrderByDesc(db["newsArticles"], "publishedAt") }

\* SELECT ... WHERE user_id = userId ORDER BY created_at DESC, on the given rows.
getUserFavorites(rows, userId) ==
    OrderByDesc({ r \in rows : r.userId = userId }, "createdAt")

(***************************************************************************)
(* routes.ts: GET /api/news.                                               *)
(***************************************************************************)
DefaultNewsLimit == 20      \* req.query.limit ? parseInt(...) : 20

\* req.query.limit: absent, or a string, written as the sequence of its characters.
NewsQueries ==
    { Undefined, Str(<<>>), Str(<<"0">>), Str(<<"1">>), Str(<<"2">>), Str(<<"2", "0">>),
      Str(<<"2", "x">>), Str(<<"a", "b", "c">>), Str(<<"-", "1">>) }

DigitValue(ch) ==
    CASE ch = "0" -> 0 [] ch = "1" -> 1 [] ch = "2" -> 2 [] ch = "3" -> 3 [] ch = "4" -> 4
      [] ch = "5" -> 5 [] ch = "6" -> 6 [] ch = "7" -> 7 [] ch = "8" -> 8 [] ch = "9" -> 9
      [] OTHER -> -1

\* The value of the longest prefix of decimal digits of chars, after the digits
\* already read as acc; -1 when there is no digit at all.
RECURSIVE DecimalPrefix(_, _)
DecimalPrefix(chars, acc) ==
    IF chars = <<>> \/ DigitValue(Head(chars)) < 0
    THEN acc
    ELSE DecimalPrefix(Tail(chars), (IF acc < 0 THEN 0 ELSE 10 * acc) + DigitValue(Head(chars)))

\* parseInt(string) on a string of sign, decimal digits and other characters.
ParseInt(chars) ==
    LET negative == chars # <<>> /\ Head(chars) = "-"
        value == DecimalPrefix(IF negative THEN Tail(chars) ELSE chars, -1)
    IN  IF value < 0 THEN NaN ELSE Num(IF negative THEN 0 - value ELSE value)

\* req.query.limit ? parseInt(req.query.limit) : 20
NewsLimit(query) ==
    IF query.type = "undefined" \/ query.str = <<>>
    THEN Num(DefaultNewsLimit)
    ELSE ParseInt(query.str)

\* The request arrives: the handler calls storage.getNewsArticles and awaits it.
NewsRequest(query) ==
    LET r == [route |-> "news", query |-> query]
    IN  /\ started < MaxReqs
        /\ r \notin reqs
        /\ started' = started + 1
        /\ reqs' = reqs \cup {r}
        /\ UNCHANGED <<now, db, seq, callVars, response, answered, pushVars, seedVars>>

\* The database runs the SELECT and the handler answers res.json(news).
NewsSettles(r) ==
    /\ r \in reqs
    /\ r.route = "news"
    /\ \E list \in getNewsArticles(NewsLimit(r.query)) :
         /\ reqs' = reqs \ {r}
         /\ response' = [status |-> 200, logged |-> "none", request |-> r, body |-> list]
         /\ answered' = answered + 1
    /\ UNCHANGED <<now, db, seq, callVars, started, pushVars, seedVars>>

\* The database cannot be reached: the catch block answers 500.
NewsStoreFails(r) ==
    /\ r \in reqs
    /\ r.route = "news"
    /\ reqs' = reqs \ {r}
    /\ response' = [status |-> 500, logged |-> "storage unavailable", request |-> r,
                    body |-> <<>>]
    /\ answered' = answered + 1
    /\ UNCHANGED <<now, db, seq, callVars, started, pushVars, seedVars>>

(***************************************************************************)
(* routes.ts: the favorites routes.  isAuthenticated has let the request   *)
(* through: the caller is req.user.claims.sub.                             *)
(***************************************************************************)
\* The bodies of POST /api/favorites: complete, complete with a userId of its own,
\* without itemId, and with an empty itemType.
FavoriteBodies ==
    { [itemType |-> "stock", itemId |-> "AAPL"],
      [itemType |-> "stock", itemId |-> "AAPL", userId |-> "bob"],
      [itemType |-> "stock"],
      [itemType |-> "", itemId |-> "AAPL"] }

\* The parameters of DELETE /api/favorites/:itemType/:itemId.
FavoriteParams == [itemType : {"stock", "currency"}, itemId : {"AAPL"}]

\* !body[key]: the key is missing or its value is the empty string.
Falsy(body, key) == key \notin DOMAIN body \/ body[key] = ""

\* The owner taken from the body when it names one.
FavoriteOwnerFromBody(caller, body) ==
    IF "userId" \in DOMAIN body THEN body.userId ELSE caller

\* const userId = req.user.claims.sub: the owner of the favorite stored.
FavoriteOwner(caller, body) == caller

\* res.json(body) or res.status(status).json(...), after the catch block's log.
FavoritesRespond(r, status, logged, body) ==
    /\ reqs' = reqs \ {r}
    /\ response' = [status |-> status, logged |-> logged, request |-> r, body |-> body]
    /\ answered' = answered + 1

\* A favorites request arrives.  POST answers 400 at once on a missing itemType or
\* itemId; otherwise the handler calls storage (the new Date() of addUserFavorite
\* is taken here) and awaits it.
FavoritesRequest(route, caller, body) ==
    LET r == [route |-> route, caller |-> caller, body |-> body, at |-> now]
    IN  /\ started < MaxReqs
        /\ r \notin reqs
        /\ started' = started + 1
        /\ IF route = "POST" /\ (Falsy(body, "itemType") \/ Falsy(body, "itemId"))
           THEN /\ response' = [status |-> 400, logged |-> "none", request |-> r,
                                body |-> <<>>]
                /\ answered' = answered + 1
                /\ UNCHANGED reqs
           ELSE /\ reqs' = reqs \cup {r}
                /\ UNCHANGED <<response, answered>>
        /\ UNCHANGED <<now, db, seq, callVars, pushVars, seedVars>>

\* The database runs the statement of request r and the handler answers.
FavoritesSettles(r) ==
    /\ r \in reqs
    /\ r.route \in {"GET", "POST", "DELETE"}
    /\ CASE r.route = "GET" ->
              /\ \E list \in getUserFavorites(db["userFavorites"], r.caller) :
                    FavoritesRespond(r, 200, "none", list)
              /\ UNCHANGED <<db, seq>>
         [] r.route = "POST" ->
              LET favorite == [userId |-> FavoriteOwner(r.caller, r.body),
                               itemType |-> r.body.itemType, itemId |-> r.body.itemId]
                  id == seq["userFavorites"]
                  rows == addUserFavorite(db["userFavorites"], favorite, r.at, id)
              IN  /\ seq' = [seq EXCEPT !["userFavorites"] = @ + 1]
                  /\ IF \E u \in db["users"] : u.id = favorite.userId
                     THEN /\ db' = [db EXCEPT !["userFavorites"] = rows]
                          /\ FavoritesRespond(r, 200, "none",
                                               << CHOOSE row \in rows : row.id = id >>)
                     ELSE /\ db' = db
                          /\ FavoritesRespond(r, 500, "foreign key violation", <<>>)
         [] r.route = "DELETE" ->
              /\ db' = [db EXCEPT !["userFavorites"] =
                          removeUserFavorite(@, r.caller, r.body.itemType, r.body.itemId)]
              /\ FavoritesRespond(r, 200, "none", <<>>)
              /\ UNCHANGED seq
    /\ UNCHANGED <<now, callVars, started, pushVars, seedVars>>

\* The database cannot be reached: the awaited call rejects, the catch block answers.
FavoritesStoreFails(r) ==
    /\ r \in reqs
    /\ FavoritesRespond(r, 500, "storage unavailable", <<>>)
    /\ UNCHANGED <<now, db, seq, callVars, started, pushVars, seedVars>>

(***************************************************************************)
(* routes.ts: the routes that answer with what one read returns:           *)
(* GET /api/auth/user, /api/market/indices, /api/stocks, /api/stocks/:id,  *)
(* /api/currencies and /api/admin/users.                                   *)
(***************************************************************************)
\* const [stock] = await db.select().from(stocks).where(eq(stocks.id, id))
getStock(id) == { r \in db["stocks"] : r.id = id }

ReadRoutes == {"authUser", "indices", "stocks", "stock", "currencies", "adminUsers"}

\* req.params.id of GET /api/stocks/:id, as the sequence of its characters.
StockIds == { Str(<<"1">>), Str(<<"9">>), Str(<<"a", "b", "c">>) }

\* The requests of these routes: the two behind isAuthenticated have a caller,
\* the one for a single stock has an id.
ReadRequests ==
    [route : {"authUser", "adminUsers"}, caller : Callers, id : {Undefined}]
        \cup [route : {"indices", "stocks", "currencies"}, caller : {"anyone"},
              id : {Undefined}]
        \cup [route : {"stock"}, caller : {"anyone"}, id : StockIds]

\* The mock user data of GET /api/admin/users.
mockUsers ==
    << [id |-> "1", role |-> "Regular User"], [id |-> "2", role |-> "Administrator"],
       [id |-> "3", role |-> "Premium User"] >>

\* The rows of a read that finds one row or none, as the array the driver returns.
AsList(rows) == IF rows = {} THEN <<>> ELSE << CHOOSE r \in rows : TRUE >>

\* res.json(body) or res.status(status).json(...), after the catch block's log.
ReadRespond(r, status, logged, body) ==
    /\ reqs' = reqs \ {r}
    /\ response' = [status |-> status, logged |-> logged, request |-> r, body |-> body]
    /\ answered' = answered + 1

\* The request arrives: the handler calls its read and awaits it.
ReadRequest(r) ==
    /\ started < MaxReqs
    /\ r \notin reqs
    /\ started' = started + 1
    /\ reqs' = reqs \cup {r}
    /\ UNCHANGED <<now, db, seq, callVars, response, answered, pushVars, seedVars>>

\* The database runs the SELECT and the handler answers.  parseInt of an id that
\* starts with no digit is NaN, which the integer column rejects.
ReadSettles(r) ==
    /\ r \in reqs
    /\ r.route \in ReadRoutes
    /\ CASE r.route = "authUser" ->
              ReadRespond(r, 200, "none", AsList(getUser(r.caller)))
         [] r.route = "indices" ->
              \E list \in getMarketIndices : ReadRespond(r, 200, "none", list)
         [] r.route = "stocks" ->
              \E list \in getStocks : ReadRespond(r, 200, "none", list)
         [] r.route = "currencies" ->
              \E list \in getCurrencyPairs : ReadRespond(r, 200, "none", list)
         [] r.route = "stock" ->
              LET id == ParseInt(r.id.str)
              IN  IF id.type = "NaN"
                  THEN ReadRespond(r, 500, "invalid input syntax for type integer", <<>>)
                  ELSE IF getStock(id.num) = {}
                  THEN ReadRespond(r, 404, "none", <<>>)
                  ELSE ReadRespond(r, 200, "none", AsList(getStock(id.num)))
         [] r.route = "adminUsers" ->
              IF NotAdmin(getUser(r.caller))
              THEN ReadRespond(r, 403, "none", <<>>)
              ELSE ReadRespond(r, 200, "none", mockUsers)
    /\ UNCHANGED <<now, db, seq, callVars, started, pushVars, seedVars>>

\* The database cannot be reached: the awaited read rejects, the catch block answers.
ReadStoreFails(r) ==
    /\ r \in reqs
    /\ r.route \in ReadRoutes
    /\ ReadRespond(r, 500, "storage unavailable", <<>>)
    /\ UNCHANGED <<now, db, seq, callVars, started, pushVars, seedVars>>

(***************************************************************************)
(* routes.ts: wss.on('connection'), the push channel.                      *)
(*                                                                         *)
(* The transport is the ws library's WebSocket: readyState goes OPEN,      *)
(* CLOSING, CLOSED and never back; 'error' is emitted with the socket      *)
(* already CLOSING, 'close' with it CLOSED.  A peer's close frame or the   *)
(* end of the socket makes it CLOSING before any event reaches the         *)
(* handlers.                                                               *)
(***************************************************************************)
Conns == {"ws1", "ws2"}

NewsPerSnapshot == 10       \* storage.getNewsArticles(10)

\* The four reads of Promise.all, and what each may return.
Reads == {"getStocks", "getCurrencyPairs", "getMarketIndices", "getNewsArticles"}

\* A read cut short: the first rows of the list only.
ReadResultsCutShort(k) ==
    UNION { { SubSeq(list, 1, n) : n \in 0..Len(list) } : list \in
              CASE k = "getStocks"        -> getStocks
                [] k = "getCurrencyPairs" -> getCurrencyPairs
                [] k = "getMarketIndices" -> getMarketIndices
                [] k = "getNewsArticles"  -> getNewsArticles(Num(NewsPerSnapshot)) }

\* The lists each read of the assembly can resolve to: one statement, one list.
ReadResults(k) ==
    CASE k = "getStocks"        -> getStocks
      [] k = "getCurrencyPairs" -> getCurrencyPairs
      [] k = "getMarketIndices" -> getMarketIndices
      [] k = "getNewsArticles"  -> getNewsArticles(Num(NewsPerSnapshot))

\* A connection not yet made.  readyState, the events emitted and the interval are
\* the program's; fired counts the invocations of sendMarketUpdate, sent and errors
\* are what went to the socket and to console.error, and atClose remembers the
\* invocations that were in flight when 'close' was handled.
NoConn == [readyState |-> "NONE", emitted |-> {}, updateInterval |-> "unset",
           fired |-> 0, sent |-> <<>>, errors |-> {}, atClose |-> {}]

\* sendMarketUpdate is invoked on connection c: Promise.all issues the four reads.
\* The invocation is numbered: 0 is the initial update, n the n-th firing.
Invoked(c) ==
    [conn |-> c, n |-> conns[c].fired, got |-> <<>>,
     open |-> conns[c].readyState = "OPEN"]

\* The test removed: the send is unconditional.
AlwaysReady(readyState) == TRUE

\* ws.readyState !== WebSocket.CLOSING
NotClosing(readyState) == readyState # "CLOSING"

\* ws.readyState === WebSocket.OPEN
ReadyToSend(readyState) == readyState = "OPEN"

\* A message whose index list is left empty.
MarketUpdateWithoutIndices(got, at) ==
    [type |-> "market_update",
     data |-> [stocks |-> got["getStocks"], currencies |-> got["getCurrencyPairs"],
               indices |-> <<>>, news |-> got["getNewsArticles"], timestamp |-> at]]

\* JSON.stringify({ type: 'market_update', data: { ..., timestamp } })
MarketUpdate(got, at) ==
    [type |-> "market_update",
     data |-> [stocks |-> got["getStocks"], currencies |-> got["getCurrencyPairs"],
               indices |-> got["getMarketIndices"], news |-> got["getNewsArticles"],
               timestamp |-> at]]

\* A close or error handler that only logs.
KeepInterval(updateInterval) == updateInterval

\* clearInterval(updateInterval)
ClearInterval(updateInterval) == "cleared"

\* The timer after the catch block of sendMarketUpdate, were it to give up.
IntervalAfterErrorCleared(updateInterval) == "cleared"

\* The timer after the catch block of sendMarketUpdate: console.error only.
IntervalAfterError(updateInterval) == updateInterval

\* A close or error handler that clears one interval shared by every connection.
HandlerSharedInterval(cs, c) ==
    [d \in DOMAIN cs |->
       [cs[d] EXCEPT !.updateInterval = IF @ = "unset" THEN @ ELSE ClearInterval(@)]]

\* The close and error handlers of connection c: updateInterval is the constant of
\* c's own 'connection' callback.
Handler(cs, c) == [cs EXCEPT ![c].updateInterval = ClearInterval(@)]

\* A 'connection' handler without its initial sendMarketUpdate().
ConnectTimerOnly(c) ==
    /\ listening
    /\ conns[c].readyState = "NONE"
    /\ conns' = [conns EXCEPT ![c].readyState = "OPEN", ![c].fired = 1,
                              ![c].updateInterval = "armed"]
    /\ UNCHANGED <<now, db, seq, callVars, reqVars, ticks, listening, seedVars>>

\* A client connects: the 'connection' handler sends the initial update, arms the
\* interval and registers the close and error handlers, in one callback.
Connect(c) ==
    /\ listening
    /\ conns[c].readyState = "NONE"
    /\ LET opened == [conns EXCEPT ![c].readyState = "OPEN"]
       IN  /\ ticks' = ticks \cup {[conn |-> c, n |-> 0, got |-> <<>>, open |-> TRUE]}
           /\ conns' = [opened EXCEPT ![c].fired = 1, ![c].updateInterval = "armed"]
    /\ UNCHANGED <<now, db, seq, callVars, reqVars, listening, seedVars>>

\* A timer that skips a firing while an earlier invocation of its connection is
\* still in flight.
TimerFiresWhenIdle(c) ==
    /\ conns[c].updateInterval = "armed"
    /\ conns[c].fired <= MaxTicks
    /\ { t \in ticks : t.conn = c } = {}
    /\ ticks' = ticks \cup {Invoked(c)}
    /\ conns' = [conns EXCEPT ![c].fired = @ + 1]
    /\ UNCHANGED <<now, db, seq, callVars, reqVars, listening, seedVars>>

\* setInterval(sendMarketUpdate, 4000) fires.
TimerFires(c) ==
    /\ conns[c].updateInterval = "armed"
    /\ conns[c].fired <= MaxTicks
    /\ ticks' = ticks \cup {Invoked(c)}
    /\ conns' = [conns EXCEPT ![c].fired = @ + 1]
    /\ UNCHANGED <<now, db, seq, callVars, reqVars, listening, seedVars>>

\* The read k of invocation t resolves.  With the last of the four, Promise.all
\* resolves and the rest of the try block runs in the same callback.
ReadResolves(t, k) ==
    /\ t \in ticks
    /\ k \in Reads \ DOMAIN t.got
    /\ \E list \in ReadResults(k) :
         LET got == [j \in DOMAIN t.got \cup {k} |-> IF j = k THEN list ELSE t.got[j]]
             c == t.conn
         IN  IF DOMAIN got # Reads
             THEN /\ ticks' = (ticks \ {t}) \cup {[t EXCEPT !.got = got]}
                  /\ UNCHANGED conns
             ELSE /\ ticks' = ticks \ {t}
                  /\ conns' = IF ReadyToSend(conns[c].readyState)
                              THEN [conns EXCEPT ![c].sent =
                                      Append(@, [tick |-> t.n, message |-> MarketUpdate(got, now)])]
                              ELSE conns
    /\ UNCHANGED <<now, db, seq, callVars, reqVars, listening, seedVars>>

\* The read k of invocation t rejects: Promise.all rejects and the catch block
\* logs; the results of the reads still pending are dropped.
ReadRejects(t, k) ==
    /\ t \in ticks
    /\ k \in Reads \ DOMAIN t.got
    /\ ticks' = ticks \ {t}
    /\ conns' = [conns EXCEPT ![t.conn].errors = @ \cup {t.n},
                              ![t.conn].updateInterval = IntervalAfterError(@)]
    /\ UNCHANGED <<now, db, seq, callVars, reqVars, listening, seedVars>>

\* Every read of invocation t still pending resolves against the store as it is:
\* Promise.all resolves and the rest of the try block runs.
AssemblyResolves(t) ==
    /\ t \in ticks
    /\ \E rest \in [Reads \ DOMAIN t.got -> UNION {ReadResults(k) : k \in Reads}] :
         /\ \A k \in DOMAIN rest : rest[k] \in ReadResults(k)
         /\ LET got == [k \in Reads |-> IF k \in DOMAIN t.got THEN t.got[k] ELSE rest[k]]
                c == t.conn
            IN  /\ ticks' = ticks \ {t}
                /\ conns' = IF ReadyToSend(conns[c].readyState)
                            THEN [conns EXCEPT ![c].sent =
                                    Append(@, [tick |-> t.n, message |-> MarketUpdate(got, now)])]
                            ELSE conns
    /\ UNCHANGED <<now, db, seq, callVars, reqVars, listening, seedVars>>

\* The peer's close frame arrives or the socket ends: the transport is CLOSING,
\* and no event has reached the handlers yet.
TransportClosing(c) ==
    /\ conns[c].readyState = "OPEN"
    /\ conns' = [conns EXCEPT ![c].readyState = "CLOSING"]
    /\ UNCHANGED <<now, db, seq, callVars, reqVars, ticks, listening, seedVars>>

\* ws.on('error'): emitted once, with the transport CLOSING.
OnError(c) ==
    /\ conns[c].readyState \in {"OPEN", "CLOSING"}
    /\ "error" \notin conns[c].emitted
    /\ conns' = Handler([conns EXCEPT ![c].readyState = "CLOSING",
                                       ![c].emitted = @ \cup {"error"}], c)
    /\ UNCHANGED <<now, db, seq, callVars, reqVars, ticks, listening, seedVars>>

\* ws.on('close'): emitted once, with the transport CLOSED.
OnClose(c) ==
    /\ conns[c].readyState \in {"OPEN", "CLOSING"}
    /\ conns' = Handler([conns EXCEPT ![c].readyState = "CLOSED",
                                       ![c].emitted = @ \cup {"close"},
                                       ![c].atClose = {t.n : t \in {u \in ticks : u.conn = c}}], c)
    /\ UNCHANGED <<now, db, seq, callVars, reqVars, ticks, listening, seedVars>>

\* The process shuts down through the one handle registerRoutes returns:
\* httpServer.close() releases the listener.  The WebSocket server and the
\* intervals are locals of registerRoutes and of the 'connection' callbacks, and
\* nothing there listens for the server's close: every connection and every
\* interval stays as it is.
Shutdown ==
    /\ listening
    /\ listening' = FALSE
    /\ UNCHANGED <<now, db, seq, callVars, reqVars, conns, ticks, seedVars>>

(***************************************************************************)
(* routes.ts: initializeSampleData, called and not awaited by              *)
(* registerRoutes.  One try block holds four loops, each awaiting one      *)
(* storage call per sample; the catch block logs and the function returns. *)
(* Of every sample the columns of the model are kept; decimals are in     *)
(* units of their column's scale.                                          *)
(***************************************************************************)
sampleIndices ==
    << [name |-> "S&P 500", symbol |-> "SPX", value |-> 454738],
       [name |-> "NASDAQ", symbol |-> "IXIC", value |-> 1422171],
       [name |-> "DOW JONES", symbol |-> "DJI", value |-> 3563068],
       [name |-> "VIX", symbol |-> "VIX", value |-> 1842] >>

sampleStocks ==
    << [symbol |-> "AAPL", price |-> 17543, marketCap |-> "$2.75T"],
       [symbol |-> "MSFT", price |-> 37885, marketCap |-> "$2.81T"],
       [symbol |-> "GOOGL", price |-> 284763, marketCap |-> "$1.84T"],
       [symbol |-> "TSLA", price |-> 24891, marketCap |-> "$789B"],
       [symbol |-> "NVDA", price |-> 45228, marketCap |-> "$1.12T"] >>

sampleCurrencies ==
    << [symbol |-> "EUR/USD", rate |-> 1084200, margin |-> 25],
       [symbol |-> "GBP/USD", rate |-> 1215600, margin |-> 30],
       [symbol |-> "USD/JPY", rate |-> 149850000, margin |-> 20],
       [symbol |-> "AUD/USD", rate |-> 645500, margin |-> 35] >>

\* publishedAt: new Date(Date.now() - hoursAgo * 60 * 60 * 1000); the clock of
\* the model counts hours.
sampleNews ==
    << [title |-> "Fed Signals Potential Rate Cuts", hoursAgo |-> 2],
       [title |-> "Tech Stocks Rally", hoursAgo |-> 4],
       [title |-> "Oil Prices Surge", hoursAgo |-> 6],
       [title |-> "Major Banks Report Strong Q4 Earnings", hoursAgo |-> 8] >>

\* The storage calls of one run, in the order the four loops make them.
SeedCalls(op, samples) == [i \in 1..Len(samples) |-> [op |-> op, arg |-> samples[i]]]

SeedSteps ==
    SeedCalls("upsertMarketIndex", sampleIndices) \o SeedCalls("upsertStock", sampleStocks)
        \o SeedCalls("upsertCurrencyPair", sampleCurrencies)
        \o SeedCalls("upsertNewsArticle", sampleNews)

\* The function has returned.
SeedReturned == Len(SeedSteps) + 1

\* The step at which the sampleNews array is built.
FirstNewsStep == Len(sampleIndices) + Len(sampleStocks) + Len(sampleCurrencies) + 1

\* An insert keyed on the title: a stored article of the same title is replaced.
upsertNewsArticleOnTitle(rows, article, at, id) ==
    IF \E row \in rows : row.title = article.title
    THEN { IF row.title = article.title
           THEN Spread(row, Spread(article, [createdAt |-> at])) ELSE row : row \in rows }
    ELSE rows \cup {InsertedRow("newsArticles", Spread(article, [createdAt |-> at]), id, at)}

\* insert(newsArticles).values({ ...article, createdAt: new Date() }).returning()
upsertNewsArticle(rows, article, at, id) ==
    rows \cup {InsertedRow("newsArticles", Spread(article, [createdAt |-> at]), id, at)}

\* The process has started (for the n-th time): registerRoutes has called
\* initializeSampleData, which awaits its first storage call.
SeedStarted(n, at) ==
    [run |-> n, pc |-> 1, at |-> at, sampled |-> at, logged |-> "none"]

\* The awaited call resolved: the loop makes the next call, whose query (new
\* Date() included) is built now; after the last, console.log and return.
SeedResumes(sd, at) ==
    [sd EXCEPT !.pc = @ + 1, !.at = at,
               !.sampled = IF sd.pc + 1 = FirstNewsStep THEN at ELSE @,
               !.logged = IF sd.pc + 1 = SeedReturned
                          THEN "Sample data initialized successfully" ELSE @]

\* The awaited call rejected: the catch block logs and the function returns;
\* the samples not yet stored are not stored.
SeedCatches(sd) ==
    [sd EXCEPT !.pc = SeedReturned, !.logged = "Error initializing sample data"]

\* The run of a process that could not reach the database when it started: no
\* sample is stored, and what the store holds was stored otherwise.
SeedFailedAtStart == SeedCatches(SeedStarted(1, 0))

\* initializeSampleData without its try block: the rejection leaves the function.
SeedingRejectionEscapes(escaped) == escaped \cup {"initializeSampleData"}

\* The rejections that have left initializeSampleData once its catch block ran.
SeedingRejection(escaped) == escaped

\* What the database makes of the statement the run awaits.
SeedStatement(step, sd) ==
    IF step.op = "upsertNewsArticle"
    THEN [rows |-> upsertNewsArticle(db["newsArticles"],
                       [title |-> step.arg.title,
                        publishedAt |-> sd.sampled - step.arg.hoursAgo],
                       sd.at, seq["newsArticles"]),
          error |-> FALSE]
    ELSE OnConflictDoUpdate(TableOf(step.op), db[TableOf(step.op)], "symbol",
                            UpsertValues(step.arg, sd.at), UpsertSet(step.arg, sd.at),
                            seq[TableOf(step.op)], now)

SeedTable(op) == IF op = "upsertNewsArticle" THEN "newsArticles" ELSE TableOf(op)

\* The database runs the statement initializeSampleData awaits.
SeedStatementRuns ==
    /\ seeding.pc < SeedReturned
    /\ LET step == SeedSteps[seeding.pc]
           t == SeedTable(step.op)
           out == SeedStatement(step, seeding)
       IN  /\ db' = [db EXCEPT ![t] = out.rows]
           /\ seq' = [seq EXCEPT ![t] = @ + 1]
           /\ lastUpsert' =
                IF out.error \/ t \notin UpsertTables THEN lastUpsert
                ELSE [lastUpsert EXCEPT ![t] =
                        { w \in @ : w.arg.symbol # step.arg.symbol }
                            \cup {[arg |-> step.arg, at |-> seeding.at]}]
           /\ seeding' = IF out.error THEN SeedCatches(seeding)
                         ELSE SeedResumes(seeding, now)
           /\ unhandled' = IF out.error THEN SeedingRejection(unhandled) ELSE unhandled
    /\ UNCHANGED <<now, calls, issued, reqVars, pushVars>>

\* The database cannot be reached: the call initializeSampleData awaits rejects.
SeedStatementFails ==
    /\ seeding.pc < SeedReturned
    /\ seeding' = SeedCatches(seeding)
    /\ unhandled' = SeedingRejection(unhandled)
    /\ UNCHANGED <<now, db, seq, callVars, reqVars, pushVars>>

(***************************************************************************)
(* Specifications.                                                         *)
(***************************************************************************)
Users ==
    {[id |-> "alice", email |-> "alice@example.com", role |-> "admin", updatedAt |-> 0],
     [id |-> "bob", email |-> "bob@example.com", role |-> "user", updatedAt |-> 0]}

NoResponse == [status |-> 0, logged |-> "none"]

Init ==
    /\ now = 0
    /\ db = [t \in Tables |-> IF t = "users" THEN Users ELSE {}]
    /\ seq = [t \in Tables |-> 1]
    /\ calls = {}
    /\ issued = 0
    /\ lastUpsert = [t \in UpsertTables |-> {}]
    /\ reqs = {}
    /\ started = 0
    /\ response = NoResponse
    /\ answered = 0
    /\ conns = [c \in Conns |-> NoConn]
    /\ ticks = {}
    /\ listening = TRUE
    /\ seeding = SeedStarted(1, 0)
    /\ unhandled = {}

UpsertNext ==
    \/ \E op \in UpsertOps : \E record \in InputsOf(op) : CallUpsert(op, record)
    \/ \E c \in calls : ExecUpsert(c)
    \/ \E c \in calls : FailCall(c)
    \/ Tick

\* Concurrent upserts on the three upsertable tables.
SpecUpsert == Init /\ [][UpsertNext]_vars

UsersNext ==
    \/ \E userData \in UserInputs : CallUpsertUser(userData)
    \/ \E c \in calls : ExecUpsertUser(c)
    \/ \E c \in calls : FailCall(c)
    \/ Tick

\* Sign-ins of new and of already stored users, concurrent.
SpecUsers == Init /\ [][UsersNext]_vars

PushNext ==
    \/ Connect("ws1")
    \/ TimerFires("ws1")
    \/ \E t \in ticks : \E k \in Reads : ReadResolves(t, k)
    \/ \E t \in ticks : \E k \in Reads : ReadRejects(t, k)
    \/ TransportClosing("ws1")
    \/ OnError("ws1")
    \/ OnClose("ws1")

\* One push connection from its connect to its close.
SpecPush == Init /\ [][PushNext]_vars

ShutdownNext ==
    \/ PushNext
    \/ Shutdown

\* One push connection and the shutdown of the process.
SpecShutdown == Init /\ [][ShutdownNext]_vars

Push2Next ==
    \/ \E c \in Conns : Connect(c)
    \/ \E c \in Conns : TimerFires(c)
    \/ \E t \in ticks : AssemblyResolves(t)
    \/ \E t \in ticks : \E k \in Reads : ReadRejects(t, k)
    \/ \E c \in Conns : TransportClosing(c)
    \/ \E c \in Conns : OnError(c)
    \/ \E c \in Conns : OnClose(c)

\* Two push connections side by side.  No action of this specification writes to
\* the store, so the four reads of an assembly return the same lists whenever
\* they run, and they are taken in one step.
SpecPush2 == Init /\ [][Push2Next]_vars

FavoritesNext ==
    \/ \E op \in {"addUserFavorite", "removeUserFavorite"} :
          \E favorite \in FavoriteInputs : CallFavorite(op, favorite)
    \/ \E c \in calls : ExecFavorite(c)
    \/ \E c \in calls : FailCall(c)
    \/ Tick

\* Concurrent adds and removes of favorites.
SpecFavorites == Init /\ [][FavoritesNext]_vars

\* The pairs of initializeSampleData: each is given with its margin.
SamplePairs == { p \in PairInputs : "margin" \in DOMAIN p }

\* The favorites stored beforehand: one triple, and the triples that differ from
\* it in the user, in the type and in the id.
StoredFavorites ==
    { f \in FavoriteInputs :
        \/ f.itemType = "stock" /\ f.itemId = "AAPL"
        \/ f.userId = "alice" /\ (f.itemType = "stock" \/ f.itemId = "AAPL") }

\* The news table after k articles were stored one after the other with
\* upsertNewsArticle: the first two were published at the same time, before all
\* the others.
NewsStore(k) ==
    { [id |-> i, title |-> "article", publishedAt |-> IF i = 1 THEN 2 ELSE i,
       createdAt |-> 0] : i \in 1..k }

NewsSizes == {0, 1, 2, 3, 11, 21}

\* The state after construction, with some articles stored.
InitNews ==
    /\ now = 0
    /\ \E k \in NewsSizes :
         /\ db = [t \in Tables |-> IF t = "users" THEN Users
                                   ELSE IF t = "newsArticles" THEN NewsStore(k) ELSE {}]
         /\ seq = [t \in Tables |-> IF t = "newsArticles" THEN k + 1 ELSE 1]
    /\ calls = {}
    /\ issued = 0
    /\ lastUpsert = [t \in UpsertTables |-> {}]
    /\ reqs = {}
    /\ started = 0
    /\ response = NoResponse
    /\ answered = 0
    /\ conns = [c \in Conns |-> NoConn]
    /\ ticks = {}
    /\ listening = TRUE
    /\ seeding = SeedFailedAtStart
    /\ unhandled = {}

NewsNext ==
    \/ \E query \in NewsQueries : NewsRequest(query)
    \/ \E r \in reqs : NewsSettles(r)
    \/ \E r \in reqs : NewsStoreFails(r)

\* GET /api/news over stores of several sizes.
SpecNews == InitNews /\ [][NewsNext]_vars

\* A store with k news articles published one after the other, a stock, a
\* currency pair and a market index, each stored by its upsert at time 0.
SampleStore(k) ==
    [t \in Tables |->
       CASE t = "users" -> Users
         [] t = "newsArticles" ->
              { [id |-> i, title |-> "article", publishedAt |-> i, createdAt |-> 0] : i \in 1..k }
         [] t = "stocks" ->
              {InsertedRow(t, UpsertValues([symbol |-> "AAPL", price |-> 17543], 0), 1, 0)}
         [] t = "currencyPairs" ->
              {InsertedRow(t, UpsertValues([symbol |-> "EUR/USD", rate |-> 1084200,
                                            margin |-> 30], 0), 1, 0)}
         [] t = "marketIndices" ->
              {InsertedRow(t, UpsertValues([name |-> "S&P 500", symbol |-> "SPX",
                                            value |-> 454738], 0), 1, 0)}
         [] OTHER -> {}]

\* One article more than a snapshot carries.
StoredArticles == NewsPerSnapshot + 1

\* The state after construction and seeding.
InitSnapshot ==
    /\ now = 0
    /\ db = SampleStore(StoredArticles)
    /\ seq = [t \in Tables |-> IF t = "newsArticles" THEN StoredArticles + 1
                               ELSE IF t \in UpsertTables THEN 2 ELSE 1]
    /\ calls = {}
    /\ issued = 0
    /\ lastUpsert = [t \in UpsertTables |-> {}]
    /\ reqs = {}
    /\ started = 0
    /\ response = NoResponse
    /\ answered = 0
    /\ conns = [c \in Conns |-> NoConn]
    /\ ticks = {}
    /\ listening = TRUE
    /\ seeding = SeedFailedAtStart
    /\ unhandled = {}

\* What is written to the stocks while snapshots are assembled.
SnapshotWrites ==
    { r \in StockInputs :
        r.symbol = "MSFT" /\ r.price = 18000 /\ DOMAIN r = {"symbol", "price"} }

SnapshotNext ==
    \/ Connect("ws1")
    \/ TimerFires("ws1")
    \/ \E t \in ticks : \E k \in Reads : ReadResolves(t, k)
    \/ \E record \in SnapshotWrites : calls = {} /\ CallUpsert("upsertStock", record)
    \/ \E c \in calls : ExecUpsert(c)

\* One push connection over a seeded store, with writes to the stocks, one after
\* the other, while its snapshots are assembled.
SpecSnapshot == InitSnapshot /\ [][SnapshotNext]_vars

\* What is written while a snapshot is assembled: a new rate of the stored
\* currency pair and a new price of the stored stock.
TornWrites ==
    { [op |-> "upsertCurrencyPair", arg |-> [symbol |-> "EUR/USD", rate |-> 1090000]],
      [op |-> "upsertStock", arg |-> [symbol |-> "AAPL", price |-> 18000]] }

\* The write w has not been made yet.
NotWritten(w) ==
    db[TableOf(w.op)] = SampleStore(StoredArticles)[TableOf(w.op)]

TornNext ==
    \/ Connect("ws1")
    \/ \E t \in ticks : \E k \in Reads : ReadResolves(t, k)
    \/ \E w \in TornWrites : NotWritten(w) /\ calls = {} /\ CallUpsert(w.op, w.arg)
    \/ \E c \in calls : ExecUpsert(c)
    \/ Tick

\* The first snapshot of a push connection is assembled while each of two tables
\* is written once, one write after the other, in either order.
SpecTorn == InitSnapshot /\ [][TornNext]_vars

\* The process is started again over the same database, whether the run before
\* has returned or was cut off: what the database holds stays, what the process
\* held is gone, and registerRoutes calls initializeSampleData anew.
Restart ==
    /\ seeding.run < MaxStarts
    /\ seeding' = SeedStarted(seeding.run + 1, now)
    /\ unhandled' = {}
    /\ calls' = {}
    /\ issued' = 0
    /\ reqs' = {}
    /\ started' = 0
    /\ response' = NoResponse
    /\ answered' = 0
    /\ conns' = [c \in Conns |-> NoConn]
    /\ ticks' = {}
    /\ listening' = TRUE
    /\ UNCHANGED <<now, db, seq, lastUpsert>>

\* The clock counts hours: in a run's seventeen calls the hour turns before the
\* first, before the last (with the articles' publishedAt already computed) or
\* after the run.
SeedTickPoints == {1, Len(SeedSteps), SeedReturned}

SeedingNext ==
    \/ SeedStatementRuns
    \/ SeedStatementFails
    \/ Restart
    \/ seeding.pc \in SeedTickPoints /\ Tick

\* The seeding of a process started, and started again, over a database that was
\* empty at first; any storage call of a run may fail.
SpecSeeding == Init /\ [][SeedingNext]_vars

\* The margin an admin sets: 0.255, stored as 0.26, which is no pair's seed margin.
AdminMargin == Num(255)

SeedMarginNext ==
    \/ SeedStatementRuns
    \/ SeedStatementFails
    \/ Restart
    \/ PutMargin("alice", AdminMargin)
    \/ \E r \in reqs : \E symbol \in PairSymbols : PutMarginGetUserResolves(r, symbol)
    \/ \E r \in reqs : PutMarginUpdateSettles(r)
    \/ \E r \in reqs : PutMarginStoreFails(r)

\* The un-awaited seeding of a process started, and started again, while an admin
\* sets the margin of a pair: registerRoutes returns with the seeding at its first
\* await, and the server takes requests from then on.
SpecSeedMargin == Init /\ [][SeedMarginNext]_vars

\* The requests in flight of the margin route, and of the routes whose request
\* names its route.
MarginReqs == { r \in reqs : "pc" \in DOMAIN r }
RoutedReqs == { r \in reqs : "route" \in DOMAIN r }

\* The storage call a request awaits settles, either way.
RequestSettles ==
    \/ \E r \in RoutedReqs : ReadSettles(r)
    \/ \E r \in RoutedReqs : ReadStoreFails(r)
    \/ \E r \in MarginReqs : \E symbol \in PairSymbols : PutMarginGetUserResolves(r, symbol)
    \/ \E r \in MarginReqs : PutMarginUpdateSettles(r)
    \/ \E r \in MarginReqs : PutMarginStoreFails(r)
    \/ \E r \in RoutedReqs : NewsSettles(r)
    \/ \E r \in RoutedReqs : NewsStoreFails(r)
    \/ \E r \in RoutedReqs : FavoritesSettles(r)
    \/ \E r \in RoutedReqs : r.route \in {"GET", "POST", "DELETE"} /\ FavoritesStoreFails(r)

\* The read routes as a stored admin, a stored user and an anonymous caller
\* use them, and one request of each outcome of the margin, news and favorites
\* routes: the role check, the validation and an update that is applied; the
\* default limit; a favorite listed, added, refused and removed.
ErrorReadRequests == { r \in ReadRequests : r.caller # "carol" }

ErrorMarginRequests ==
    { <<"bob", Num(255)>>, <<"alice", Undefined>>, <<"alice", Num(255)>> }

ErrorFavoriteRequests ==
    { <<"GET", "alice", <<>> >>,
      <<"POST", "alice", [itemType |-> "stock", itemId |-> "AAPL"]>>,
      <<"POST", "alice", [itemType |-> "stock"]>>,
      <<"DELETE", "alice", [itemType |-> "stock", itemId |-> "AAPL"]>> }

ErrorsNext ==
    \/ \E r \in ErrorReadRequests : ReadRequest(r)
    \/ \E q \in ErrorMarginRequests : PutMargin(q[1], q[2])
    \/ NewsRequest(Undefined)
    \/ \E q \in ErrorFavoriteRequests : FavoritesRequest(q[1], q[2], q[3])
    \/ RequestSettles
    \/ SeedStatementFails
    \/ Connect("ws1")
    \/ TimerFires("ws1")
    \/ \E t \in ticks : AssemblyResolves(t)
    \/ \E t \in ticks : \E k \in Reads : ReadRejects(t, k)

\* The process starts over a store that holds a stock, a currency pair, an index
\* and two articles.
InitErrors ==
    /\ now = 0
    /\ db = SampleStore(2)
    /\ seq = [t \in Tables |-> IF t = "newsArticles" THEN 3
                               ELSE IF t \in UpsertTables THEN 2 ELSE 1]
    /\ calls = {}
    /\ issued = 0
    /\ lastUpsert = [t \in UpsertTables |-> {}]
    /\ reqs = {}
    /\ started = 0
    /\ response = NoResponse
    /\ answered = 0
    /\ conns = [c \in Conns |-> NoConn]
    /\ ticks = {}
    /\ listening = TRUE
    /\ seeding = SeedStarted(1, 0)
    /\ unhandled = {}

\* Every route and the ticks of one push connection, each with its storage calls
\* failing or not, in a process whose seeding has not got through its first
\* storage call or has failed at it.  A storage call a handler has made settles:
\* the driver resolves or rejects every query.
SpecErrors == InitErrors /\ [][ErrorsNext]_vars /\ WF_vars(RequestSettles)

FavoritesRoutesNext ==
    \/ \E favorite \in StoredFavorites :
         calls = {} /\ CallFavorite("addUserFavorite", favorite)
    \/ \E c \in calls : ExecFavorite(c)
    \/ \E caller \in Callers :
         \/ FavoritesRequest("GET", caller, <<>>)
         \/ \E body \in FavoriteBodies : FavoritesRequest("POST", caller, body)
         \/ \E params \in FavoriteParams : FavoritesRequest("DELETE", caller, params)
    \/ \E r \in reqs : FavoritesSettles(r)
    \/ \E r \in reqs : FavoritesStoreFails(r)

\* The favorites routes over favorites stored one after the other.
SpecFavoritesRoutes == Init /\ [][FavoritesRoutesNext]_vars

MarginNext ==
    \/ \E record \in SamplePairs : calls = {} /\ CallUpsert("upsertCurrencyPair", record)
    \/ \E c \in calls : ExecUpsert(c)
    \/ Tick
    \/ \E caller \in Callers : \E body \in MarginBodies : PutMargin(caller, body)
    \/ \E r \in reqs : \E symbol \in PairSymbols : PutMarginGetUserResolves(r, symbol)
    \/ \E r \in reqs : PutMarginUpdateSettles(r)
    \/ \E r \in reqs : PutMarginStoreFails(r)

\* The currency pairs, seeded by upserts one after the other as initializeSampleData
\* does, under concurrent margin requests.
SpecMargin == Init /\ [][MarginNext]_vars

(***************************************************************************)
(* Properties of the upserts.                                              *)
(***************************************************************************)
\* The step in which the database runs the statement of the pending call c.
Ran(c) ==
    /\ c \in calls
    /\ c \notin calls'
    /\ seq'[TableOf(c.op)] = seq[TableOf(c.op)] + 1

RowsOf(t, symbol) == { r \in db[t] : r.symbol = symbol }

\* C1: under every interleaving of concurrent upsertStock / upsertCurrencyPair /
\* upsertMarketIndex calls a table never holds two rows with one symbol, and once
\* no call is in flight the row of every symbol carries the values supplied by the
\* upsert the database ran last on that symbol, with that call's updatedAt.
C1_OneRowPerSymbolLastWriterWins ==
    /\ \A t \in UpsertTables : \A r1, r2 \in db[t] : r1.symbol = r2.symbol => r1 = r2
    /\ calls = {} =>
         \A t \in UpsertTables : \A w \in lastUpsert[t] :
            \E r \in db[t] :
               /\ r.symbol = w.arg.symbol
               /\ \A f \in DOMAIN w.arg \ {"updatedAt"} : r[f] = w.arg[f]
               /\ r.updatedAt = w.at

\* An upsert has run while another upsert on the same symbol, called earlier, is
\* still in flight: the two overlap and the database serialized them out of call order.
C1_Witness ==
    \E c \in calls : \E w \in lastUpsert[TableOf(c.op)] :
        c.arg.symbol = w.arg.symbol /\ c.at < w.at

\* C5 as stated: a re-upsert on an existing symbol leaves the row as a fresh insert
\* of the new record would (no value of the previous write survives), with
\* updatedAt refreshed, and getBySymbol returns exactly that one row.
C5_ReupsertReplacesAllFields ==
    [][\A c \in calls :
         (Ran(c) /\ c.op = "upsertStock" /\ RowsOf("stocks", c.arg.symbol) # {}) =>
            \E new \in db'["stocks"] :
               /\ getStockBySymbol(c.arg.symbol)' = {new}
               /\ \A f \in Columns("stocks") \ {"id"} :
                    new[f] = IF f = "updatedAt" THEN c.at
                             ELSE IF f \in DOMAIN c.arg THEN c.arg[f]
                             ELSE ColumnDefault("stocks", f, new.id, now)]_vars

\* C5 amended: a re-upsert on an existing symbol assigns every field the record
\* supplies and sets updatedAt to the time of the call; a column the record does
\* not supply (and the id) keeps the previous write's value; the table still holds
\* one row for the symbol and its other rows are untouched.  A market index whose
\* new name is already the name of another index is rejected and changes nothing.
C5_ReupsertReplacesSuppliedFields ==
    [][\A c \in calls :
         (Ran(c) /\ RowsOf(TableOf(c.op), c.arg.symbol) # {}) =>
            LET t == TableOf(c.op)
                old == CHOOSE r \in RowsOf(t, c.arg.symbol) : TRUE
            IN  \/ /\ t = "marketIndices"
                   /\ \E r \in db[t] : r # old /\ r.name = c.arg.name
                   /\ db' = db
                \/ \E new \in db'[t] :
                      /\ db'[t] = (db[t] \ {old}) \cup {new}
                      /\ \A f \in DOMAIN c.arg \ {"updatedAt"} : new[f] = c.arg[f]
                      /\ new.updatedAt = c.at
                      /\ \A f \in Columns(t) \ (DOMAIN c.arg \cup {"updatedAt"}) :
                            new[f] = old[f]
                      /\ \A u \in Tables \ {t} : db'[u] = db[u]]_vars

\* A stock was re-upserted with a record that supplies no marketCap: the row has
\* the record's price and still the marketCap of the earlier write.
C5_Witness ==
    /\ calls = {}
    /\ \E w \in lastUpsert["stocks"] : \E r \in db["stocks"] :
         /\ "marketCap" \notin DOMAIN w.arg
         /\ r.symbol = w.arg.symbol
         /\ r.price = w.arg.price
         /\ r.marketCap # NULL

\* C6: upsertStock changes the length of getStocks by 0 when the symbol exists and
\* by +1 when it does not, and the inserted row's updatedAt is not earlier than
\* the clock at the call.
C6_UpsertStockCount ==
    [][\A c \in calls :
         (Ran(c) /\ c.op = "upsertStock") =>
            LET existed == getStockBySymbol(c.arg.symbol) # {}
            IN  /\ \A before \in getStocks : \A after \in getStocks' :
                      Len(after) = Len(before) + (IF existed THEN 0 ELSE 1)
                /\ ~existed =>
                      \E r \in db'["stocks"] :
                         /\ db'["stocks"] \ db["stocks"] = {r}
                         /\ r.symbol = c.arg.symbol
                         /\ r.updatedAt >= c.at]_vars

\* Two upsertStock statements have run and the table holds one row: an insert of a
\* new symbol, then an upsert of that existing symbol.
C6_Witness ==
    /\ seq["stocks"] = 3
    /\ Cardinality(db["stocks"]) = 1
    /\ \A list \in getStocks : Len(list) = 1

(***************************************************************************)
(* Properties of the margin update.                                        *)
(***************************************************************************)
\* The step in which the call request r awaits settles.
Settles(r) == r \in reqs /\ r \notin reqs'

\* The handler of request r goes on to its call of updateCurrencyMargin in this
\* step; a request that settles otherwise has been answered.
Advances(r) ==
    r.pc = "getUser" /\ \E n \in reqs' \ reqs :
                           /\ n.pc = "updateCurrencyMargin"
                           /\ n.caller = r.caller /\ n.body = r.body

\* The caller's stored role is admin.
StoredAdmin(r) == \E u \in db["users"] : u.id = r.caller /\ u.role = "admin"

\* The body's margin is a non-negative number.
NonNegativeNumber(body) == body.type = "number" /\ body.num >= 0

\* The margin m, in thousandths, to the nearest hundredth.
Hundredths(m) == (m + 5) \div 10

\* The largest margin of a numeric(5,2) column is 999.99.
FitsColumn(h) == h <= 99999

\* The pair row old with its margin and updatedAt replaced, nothing else.
MarginSet(old, margin, at) ==
    [f \in DOMAIN old |-> IF f = "margin" THEN margin
                          ELSE IF f = "updatedAt" THEN at ELSE old[f]]

\* An out-of-range margin for a symbol with no row: the one statement whose
\* outcome (no-op, or overflow error) is left open.
OpenOutcome(r) ==
    /\ r.pc = "updateCurrencyMargin"
    /\ RowsOf("currencyPairs", r.symbol) = {}
    /\ ~FitsColumn(Hundredths(r.body.num))

\* C7 as stated: whenever the database runs updateCurrencyMargin(symbol, m), an
\* existing pair gets margin exactly m with only updatedAt changed besides, an
\* absent symbol changes nothing, and no error is raised.
C7_MarginSetExactly ==
    [][\A r \in reqs :
         (r.pc = "updateCurrencyMargin" /\ Settles(r) /\ ~OpenOutcome(r)
            /\ response'.logged # "storage unavailable") =>
            LET hit == RowsOf("currencyPairs", r.symbol)
            IN  /\ response'.status = 200
                /\ hit = {} => db' = db
                /\ \A old \in hit :
                      /\ r.body.num = 10 * (r.body.num \div 10)
                      /\ db' = [db EXCEPT !["currencyPairs"] =
                                  (@ \ {old}) \cup {MarginSet(old, r.body.num \div 10, r.at)}]]_vars

\* C7 amended: updateCurrencyMargin(symbol, m) on an existing pair sets margin to m
\* rounded to the column's two decimals and updatedAt to the time of the call and
\* changes nothing else in that row, in any other row or table; when the rounded
\* margin exceeds 999.99 the call raises and changes nothing.  On an absent symbol
\* it creates no row and changes no row, and raises no error for a margin within
\* the column's range.
C7_MarginSetRounded ==
    [][\A r \in reqs :
         (r.pc = "updateCurrencyMargin" /\ Settles(r)) =>
            LET hit == RowsOf("currencyPairs", r.symbol)
                v == Hundredths(r.body.num)
            IN  /\ response'.status \in {200, 500}
                /\ response'.status = 500 => db' = db
                /\ (response'.status = 200 /\ hit = {}) => db' = db
                /\ response'.status = 200 =>
                      \A old \in hit :
                         /\ FitsColumn(v)
                         /\ db' = [db EXCEPT !["currencyPairs"] =
                                     (@ \ {old}) \cup {MarginSet(old, v, r.at)}]
                /\ (FitsColumn(v) /\ response'.logged # "storage unavailable") =>
                      response'.status = 200
                /\ (hit # {} /\ ~FitsColumn(v)) => response'.status = 500]_vars

\* A margin update of 0.255 was answered 200 and a pair now carries margin 0.26,
\* with the rate of its upsert, while another pair keeps the margin of its upsert.
C7_Witness ==
    /\ response.status = 200
    /\ \E p, q \in db["currencyPairs"] :
         /\ p.margin = 26
         /\ p.rate = 1084200
         /\ q.symbol # p.symbol
         /\ q.margin \in {DefaultMargin, 30}

\* C8 as stated: with the store reachable, a request of a caller who is not a
\* stored admin is answered 403 and one with a missing, non-numeric or negative
\* margin 400, both without reaching updateCurrencyMargin or changing the store;
\* every other request reaches updateCurrencyMargin and is answered 200.
C8_MarginRouteAnswers ==
    [][\A r \in reqs :
         (Settles(r) /\ ~OpenOutcome(r)) =>
            IF Advances(r)
            THEN /\ r.pc = "getUser" /\ StoredAdmin(r) /\ NonNegativeNumber(r.body)
                 /\ db' = db /\ response' = response
            ELSE \/ response'.logged = "storage unavailable"
                 \/ IF ~StoredAdmin(r)
                    THEN r.pc = "getUser" /\ response'.status = 403 /\ db' = db
                    ELSE IF ~NonNegativeNumber(r.body)
                    THEN r.pc = "getUser" /\ response'.status = 400 /\ db' = db
                    ELSE r.pc = "updateCurrencyMargin" /\ response'.status = 200]_vars

\* C8 amended: the margin is mutated through the route only when the caller's
\* stored role is admin and the body margin is a non-negative number.  A caller
\* who is not a stored admin gets 403, a missing, non-numeric or negative margin
\* 400, and in both cases updateCurrencyMargin is never invoked and the store is
\* unchanged.  Otherwise the response is 200, or 500 with the store unchanged
\* when a store call fails: the store cannot be reached, or the margin rounds to
\* more than 999.99 and overflows the numeric(5,2) column.
C8_MarginRouteGuards ==
    [][/\ \A r \in reqs :
            Settles(r) =>
               IF Advances(r)
               THEN /\ r.pc = "getUser" /\ StoredAdmin(r) /\ NonNegativeNumber(r.body)
                    /\ db' = db /\ response' = response
               ELSE IF response'.logged = "storage unavailable"
               THEN response'.status = 500 /\ db' = db
               ELSE IF ~StoredAdmin(r)
               THEN r.pc = "getUser" /\ response'.status = 403 /\ db' = db
               ELSE IF ~NonNegativeNumber(r.body)
               THEN r.pc = "getUser" /\ response'.status = 400 /\ db' = db
               ELSE /\ r.pc = "updateCurrencyMargin"
                    /\ \/ response'.status = 200
                       \/ /\ response'.status = 500
                          /\ ~FitsColumn(Hundredths(r.body.num)) /\ db' = db
       /\ \A n \in reqs' :
            n.pc = "updateCurrencyMargin" => StoredAdmin(n) /\ NonNegativeNumber(n.body)
       /\ db'["currencyPairs"] # db["currencyPairs"] =>
            \/ \E c \in calls : Ran(c)
            \/ \E r \in reqs :
                  /\ r.pc = "updateCurrencyMargin" /\ Settles(r)
                  /\ StoredAdmin(r) /\ NonNegativeNumber(r.body)
                  /\ response'.status = 200]_vars

\* A request was answered 400 while a pair exists, and every pair still carries the
\* margin of its upsert.
C8_Witness ==
    /\ response.status = 400
    /\ db["currencyPairs"] # {}
    /\ \A p \in db["currencyPairs"] : p.margin \in {DefaultMargin, 30}

(***************************************************************************)
(* Properties of the favorites.                                            *)
(***************************************************************************)
\* The favorites after one more add of favorite, the n-th from the current state.
Added(rows, favorite, n) ==
    addUserFavorite(rows, favorite, now, seq["userFavorites"] + n - 1)

Removed(rows, favorite) ==
    removeUserFavorite(rows, favorite.userId, favorite.itemType, favorite.itemId)

SameTriple(r, favorite) ==
    /\ r.userId = favorite.userId
    /\ r.itemType = favorite.itemType
    /\ r.itemId = favorite.itemId

\* C4 as stated: from every state of the store, add then remove of (u,t,i) leaves
\* getUserFavorites(u) as it was before the add, also with the add made twice
\* and with the add/remove pair made twice.
C4_AddRemoveRestoresList ==
    \A favorite \in FavoriteInputs :
        LET rows == db["userFavorites"]
            before == getUserFavorites(rows, favorite.userId)
            once == Removed(Added(rows, favorite, 1), favorite)
            addedTwice == Removed(Added(Added(rows, favorite, 1), favorite, 2), favorite)
            pairTwice == Removed(Added(once, favorite, 2), favorite)
        IN  /\ getUserFavorites(once, favorite.userId) = before
            /\ getUserFavorites(addedTwice, favorite.userId) = before
            /\ getUserFavorites(pairTwice, favorite.userId) = before

\* C4 amended: add then remove of (u,t,i), also with the add or the pair made
\* twice, leaves getUserFavorites(u) as the list before the add without the rows
\* of (u,t,i) it already held: exactly the list before the add when the user had
\* no favorite (u,t,i), and that list less every earlier (u,t,i) row otherwise.
C4_AddRemoveDropsTriple ==
    \A favorite \in FavoriteInputs :
        LET rows == db["userFavorites"]
            u == favorite.userId
            others == { r \in rows : r.userId = u /\ ~SameTriple(r, favorite) }
            once == Removed(Added(rows, favorite, 1), favorite)
            addedTwice == Removed(Added(Added(rows, favorite, 1), favorite, 2), favorite)
            pairTwice == Removed(Added(once, favorite, 2), favorite)
        IN  /\ \A after \in {once, addedTwice, pairTwice} :
                 /\ getUserFavorites(after, u) # {}
                 /\ \A list \in getUserFavorites(after, u) :
                       /\ { list[i] : i \in DOMAIN list } = others
                       /\ Len(list) = Cardinality(others)
                       /\ \A i, j \in DOMAIN list : i < j =>
                             list[i].createdAt >= list[j].createdAt
            /\ (\A r \in rows : ~SameTriple(r, favorite)) =>
                 \A after \in {once, addedTwice, pairTwice} :
                    getUserFavorites(after, u) = getUserFavorites(rows, u)

\* An add has run and a later remove has deleted its row, while the user keeps
\* no favorite: the round trip has happened on the store.
C4_Witness ==
    /\ seq["userFavorites"] = 2
    /\ db["userFavorites"] = {}
    /\ issued = 2
    /\ calls = {}

(***************************************************************************)
(* The push channel: C2, C3, C9, C10.                                      *)
(***************************************************************************)
InFlight(c, n) == \E t \in ticks : t.conn = c /\ t.n = n

\* The invocations whose snapshot was sent on a connection.
SentTicks(conn) == { conn.sent[i].tick : i \in DOMAIN conn.sent }

\* Invocation t ends in this step: its Promise.all settles.
Finishes(t) == t \in ticks /\ \A u \in ticks' : ~(u.conn = t.conn /\ u.n = t.n)

\* Invocation n of connection c ended with its assembly done and nothing sent.
Skipped(c, n) ==
    /\ n < conns[c].fired
    /\ ~InFlight(c, n)
    /\ n \notin conns[c].errors
    /\ n \notin SentTicks(conns[c])

\* C2: once 'close' has been handled on a connection, nothing is sent on it again,
\* whatever assembly was in flight when it closed and however it ends.
C2_NoPushAfterClose ==
    [][\A c \in Conns :
         "close" \in conns[c].emitted => conns'[c].sent = conns[c].sent]_vars

\* A connection closed with an assembly in flight, which has since completed
\* without an error and without a send.
C2_Witness ==
    \E c \in Conns :
      /\ "close" \in conns[c].emitted
      /\ \E n \in conns[c].atClose : Skipped(c, n)

C9_PushedIffOpenAtFiring ==
    [][\A t \in ticks :
         (t.n >= 1 /\ Finishes(t) /\ t.n \notin conns'[t.conn].errors)
           => (t.n \in SentTicks(conns'[t.conn]) <=> t.open)]_vars

\* C9: a timer firing is pushed exactly when its assembly succeeds and the transport
\* is OPEN when the assembly completes; a firing on a transport that was not OPEN
\* is never pushed; and a send happens only in the step that completes an
\* assembly, so a skipped snapshot is never delivered later.
C9_PushedIffOpenAtCompletion ==
    [][\A c \in Conns :
         /\ \A t \in ticks :
              (t.conn = c /\ t.n >= 1 /\ Finishes(t)) =>
                /\ t.n \in SentTicks(conns'[c])
                     <=> (t.n \notin conns'[c].errors /\ conns[c].readyState = "OPEN")
                /\ ~t.open => t.n \notin SentTicks(conns'[c])
         /\ \/ conns'[c].sent = conns[c].sent
            \/ \E t \in ticks :
                 /\ t.conn = c /\ Finishes(t)
                 /\ t.n \notin SentTicks(conns[c])
                 /\ Len(conns'[c].sent) = Len(conns[c].sent) + 1
                 /\ conns'[c].sent[Len(conns'[c].sent)].tick = t.n
                 /\ SubSeq(conns'[c].sent, 1, Len(conns[c].sent)) = conns[c].sent]_vars

\* The initial update was sent, the transport then began closing with the timer
\* still armed, and a timer firing completed its assembly and was skipped.
C9_Witness ==
    \E c \in Conns :
      /\ conns[c].readyState = "CLOSING"
      /\ conns[c].updateInterval = "armed"
      /\ 0 \in SentTicks(conns[c])
      /\ \E n \in 1..MaxTicks : Skipped(c, n)

\* C10: the step in which an assembly fails logs the error and ends that invocation
\* only: transport, timer, other invocations and what was sent are untouched.  The
\* timer stops only in a step that handles a close or error event.  After a
\* failure, an assembly that succeeds on an OPEN transport is pushed.
C10_FailureSkipsOnlyThatTick ==
    [][\A c \in Conns :
         /\ conns'[c].errors # conns[c].errors =>
              \E t \in ticks :
                /\ t.conn = c
                /\ ticks' = ticks \ {t}
                /\ conns' = [conns EXCEPT ![c].errors = @ \cup {t.n}]
         /\ (conns[c].updateInterval = "armed" /\ conns'[c].updateInterval # "armed")
              => conns'[c].emitted # conns[c].emitted
         /\ conns[c].errors # {} =>
              \A t \in ticks :
                (/\ t.conn = c /\ Finishes(t)
                 /\ conns'[c].errors = conns[c].errors
                 /\ conns[c].readyState = "OPEN")
                  => t.n \in SentTicks(conns'[c])]_vars

\* An assembly failed, the connection is still open with its timer armed, and a
\* later invocation was pushed.
C10_Witness ==
    \E c \in Conns :
      /\ conns[c].readyState = "OPEN"
      /\ conns[c].updateInterval = "armed"
      /\ \E m \in conns[c].errors : \E n \in SentTicks(conns[c]) : n > m

(***************************************************************************)
(* Several connections: C11, C12.                                          *)
(***************************************************************************)
\* The invocations of connection c in flight.
TicksOf(c) == { t \in ticks : t.conn = c }

\* The step leaves connection d as it is: its transport, its interval, what it has
\* fired, sent and logged, and its invocations in flight.
Untouched(d) ==
    /\ conns'[d] = conns[d]
    /\ { t \in ticks' : t.conn = d } = TicksOf(d)

\* C11: a connection has its interval armed from its 'connection' callback until
\* its first close or error event; the step that handles a close or error event
\* of connection c clears c's interval and leaves every other connection
\* untouched; and a connection's interval changes only in its own connect, close
\* or error step.
C11_OwnTimerOnly ==
    [][\A c \in Conns :
         /\ (conns'[c].readyState # "NONE" /\ conns'[c].emitted = {})
              => conns'[c].updateInterval = "armed"
         /\ conns'[c].emitted # conns[c].emitted =>
              /\ conns'[c].updateInterval = "cleared"
              /\ \A d \in Conns \ {c} : Untouched(d)
         /\ conns'[c].updateInterval # conns[c].updateInterval =>
              \/ conns[c].readyState = "NONE"
              \/ conns'[c].emitted # conns[c].emitted]_vars

\* One connection was closed before its timer ever fired, and the other, still
\* open with its interval armed, has had its timer fire and that snapshot sent.
C11_Witness ==
    \E c, d \in Conns :
      /\ c # d
      /\ "close" \in conns[c].emitted
      /\ conns[c].fired = 1
      /\ conns[d].readyState = "OPEN"
      /\ conns[d].updateInterval = "armed"
      /\ 1 \in SentTicks(conns[d])

\* C12 as stated: every connection gets the snapshot of tick 0: once its initial
\* invocation has ended on a transport still OPEN, that snapshot has been sent.
C12_FirstPushAlways ==
    \A c \in Conns :
      (conns[c].readyState = "OPEN" /\ ~InFlight(c, 0)) => 0 \in SentTicks(conns[c])

\* C12: the step that connects c starts the assembly of tick 0 in the 'connection'
\* callback itself, before c's timer has fired and whatever the other
\* connections do, and leaves them untouched; the snapshot of tick 0 is sent in
\* the step that completes its assembly exactly when no read failed and the
\* transport is OPEN then.
C12_FirstPushOnConnect ==
    [][\A c \in Conns :
         /\ (conns[c].readyState = "NONE" /\ conns'[c].readyState # "NONE") =>
              /\ \E t \in ticks' \ ticks : t.conn = c /\ t.n = 0 /\ t.got = <<>>
              /\ conns'[c].fired = 1
              /\ conns'[c].readyState = "OPEN"
              /\ \A d \in Conns \ {c} : Untouched(d)
         /\ \A t \in ticks :
              (t.conn = c /\ t.n = 0 /\ Finishes(t)) =>
                /\ 0 \in SentTicks(conns'[c])
                     <=> (0 \notin conns'[c].errors /\ conns[c].readyState = "OPEN")
                /\ \A d \in Conns \ {c} : Untouched(d)
         /\ (0 \in SentTicks(conns'[c]) /\ 0 \notin SentTicks(conns[c]))
              => InFlight(c, 0)]_vars

\* Two connections made at different times: the timer of one has fired, the other
\* has its snapshot of tick 0 and its timer has not fired yet.
C12_Witness ==
    \E c, d \in Conns :
      /\ c # d
      /\ conns[c].fired = 2
      /\ conns[d].fired = 1
      /\ SentTicks(conns[d]) = {0}

(***************************************************************************)
(* Shutdown: C13.                                                          *)
(***************************************************************************)
\* C13: once the listener has been released no connection's timer fires: every
\* interval was cancelled before the release.
C13_NoTimerAfterRelease ==
    [][~listening =>
         \A c \in Conns :
           /\ conns[c].updateInterval # "armed"
           /\ conns'[c].fired = conns[c].fired]_vars

(***************************************************************************)
(* The favorites routes: C14, C20.                                         *)
(***************************************************************************)
\* The stored favorites of the triple (userId, itemType, itemId).
TripleRows(userId, itemType, itemId) ==
    { row \in db["userFavorites"] :
        row.userId = userId /\ row.itemType = itemType /\ row.itemId = itemId }

\* The response answers a favorites request of the given route.
Answered(route) ==
    /\ "request" \in DOMAIN response
    /\ response.request.route = route

C20_FavoritesOwnedByCaller ==
    [][/\ \A r \in reqs :
            ("route" \in DOMAIN r /\ Settles(r)) =>
               /\ \A row \in db'["userFavorites"] \ db["userFavorites"] : row.userId = r.caller
               /\ \A row \in db["userFavorites"] \ db'["userFavorites"] : row.userId = r.caller
               /\ response'.request = r
               /\ \A i \in DOMAIN response'.body : response'.body[i].userId = r.caller
               /\ (r.route = "GET" /\ response'.status = 200) =>
                    { response'.body[i] : i \in DOMAIN response'.body }
                       = { row \in db["userFavorites"] : row.userId = r.caller }
       /\ db'["userFavorites"] # db["userFavorites"] =>
            \/ \E c \in calls : c \notin calls'
            \/ \E r \in reqs : Settles(r) /\ r.route \in {"POST", "DELETE"}]_vars

\* alice's POST named bob as the owner in its body; it was answered with a stored
\* row owned by alice, and bob's stored favorite is the one bob had.
C20_Witness ==
    /\ Answered("POST")
    /\ response.status = 200
    /\ response.request.caller = "alice"
    /\ "userId" \in DOMAIN response.request.body
    /\ response.request.body.userId = "bob"
    /\ response.body[1] \in db["userFavorites"]
    /\ response.body[1].userId = "alice"
    /\ \E row \in db["userFavorites"] : row.userId = "bob"

(***************************************************************************)
(* News: C15.                                                              *)
(***************************************************************************)
\* The limit N a news request asks for: 20 when it gives none, the number its
\* limit parameter is written as otherwise (the requests are those of a decimal
\* number zero or more).
AskedLimit ==
    [q \in {Undefined, Str(<<"0">>), Str(<<"1">>), Str(<<"2">>), Str(<<"2", "0">>)} |->
       CASE q = Undefined -> 20
         [] q = Str(<<"0">>) -> 0
         [] q = Str(<<"1">>) -> 1
         [] q = Str(<<"2">>) -> 2
         [] q = Str(<<"2", "0">>) -> 20]

SettledUserCalls == { c \in calls \ calls' : c.op = "upsertUser" }

\* The stored user of this id, before and after the step.
StoredUser(id) == { u \in db["users"] : u.id = id }
StoredUserAfter(id) == { u \in db'["users"] : u.id = id }

\* C16: a user that upsertUser creates from a record without a role has the role
\* "user"; an upsertUser of a stored user's id from a record without a role leaves
\* the stored role as it was (an admin stays admin); and a stored role changes
\* only in an upsertUser of that id whose record carries the new role.
C16_RoleKeptUnlessSupplied ==
    [][ /\ \A u \in db'["users"] :
            \/ u \in db["users"]
            \/ \E c \in SettledUserCalls :
                  /\ "id" \in DOMAIN c.arg /\ c.arg.id = u.id
                  /\ u.role = IF "role" \in DOMAIN c.arg THEN c.arg.role
                              ELSE IF StoredUser(u.id) = {} THEN "user"
                              ELSE (CHOOSE o \in StoredUser(u.id) : TRUE).role
        /\ \A o \in db["users"] : StoredUserAfter(o.id) # {}
      ]_vars

\* Witness of C16: the stored admin was upserted again from a record without a
\* role, the write took effect (the row carries the new e-mail address) and the
\* role is still admin; and a user created without a role is stored as "user".
C16_Witness ==
    /\ \E u \in db["users"] :
          u.id = "alice" /\ u.email = "carol@example.com" /\ u.role = "admin"
    /\ \E u \in db["users"] : u.id = "carol" /\ u.role = "user"
    /\ calls = {}
(***************************************************************************)
(* The snapshot a push carries.                                            *)
(***************************************************************************)
\* The table behind each read of the assembly.
ReadTable(k) ==
    CASE k = "getStocks"        -> "stocks"
      [] k = "getCurrencyPairs" -> "currencyPairs"
      [] k = "getMarketIndices" -> "marketIndices"
      [] k = "getNewsArticles"  -> "newsArticles"

\* The key of the message's data that holds the result of each read.
DataKey(k) ==
    CASE k = "getStocks"        -> "stocks"
      [] k = "getCurrencyPairs" -> "currencies"
      [] k = "getMarketIndices" -> "indices"
      [] k = "getNewsArticles"  -> "news"

Elements(list) == { list[i] : i \in 1..Len(list) }

\* list holds every row of rows, each once.
IsFullList(list, rows) ==
    Len(list) = Cardinality(rows) /\ Elements(list) = rows

\* list holds the n most recently published rows of rows (all of them when there
\* are fewer), newest first.
IsNewest(list, rows, n) ==
    /\ Len(list) = (IF Cardinality(rows) < n THEN Cardinality(rows) ELSE n)
    /\ Cardinality(Elements(list)) = Len(list)
    /\ Elements(list) \subseteq rows
    /\ \A r \in rows \ Elements(list) : \A e \in Elements(list) :
          r.publishedAt <= e.publishedAt
    /\ \A i \in 1..(Len(list) - 1) : list[i].publishedAt >= list[i + 1].publishedAt

\* list is what the claim says read k contributes, of the store as it is now.
IsSnapshotPart(k, list) ==
    IF k = "getNewsArticles" THEN IsNewest(list, db["newsArticles"], 10)
    ELSE IsFullList(list, db[ReadTable(k)])

\* A step of the push channel.
PushStep == ticks' # ticks \/ conns' # conns

\* C17: a step of the push channel (a connect with its tick 0, a timer tick, a
\* read of an assembly resolving or rejecting, a send, a close) leaves every
\* table and every sequence as it was; every list an assembly reads is, of the
\* store at that read, the full list of stocks, of currency pairs or of indices,
\* or the at most 10 most recently published articles, newest first; and every
\* message sent is {type: "market_update", data: {stocks, currencies, indices,
\* news, timestamp}} holding the four lists its assembly read and the time of
\* the send.
C17_PushIsPureRead ==
    [][ PushStep =>
          /\ db' = db /\ seq' = seq
          /\ \A u \in ticks' \ ticks : \A k \in DOMAIN u.got :
                \/ \E t \in ticks \ ticks' : k \in DOMAIN t.got /\ t.got[k] = u.got[k]
                \/ IsSnapshotPart(k, u.got[k])
          /\ \A c \in Conns : conns'[c].sent # conns[c].sent =>
                \E t \in ticks \ ticks' : \E m \in {conns'[c].sent[Len(conns'[c].sent)].message} :
                   /\ t.conn = c
                   /\ conns'[c].sent = Append(conns[c].sent, [tick |-> t.n, message |-> m])
                   /\ DOMAIN m = {"type", "data"}
                   /\ m.type = "market_update"
                   /\ DOMAIN m.data = {DataKey(k) : k \in Reads} \cup {"timestamp"}
                   /\ m.data.timestamp = now
                   /\ \A k \in Reads :
                         IF k \in DOMAIN t.got THEN m.data[DataKey(k)] = t.got[k]
                         ELSE IsSnapshotPart(k, m.data[DataKey(k)])
      ]_vars

\* Witness of C17: over a store of 11 articles to which a second stock was
\* written meanwhile, tick 0 and a timer tick were both pushed, one of them with
\* 10 articles and both stocks, and the store holds what was stored and written.
C17_Witness ==
    /\ Cardinality(db["newsArticles"]) = 11
    /\ Cardinality(db["stocks"]) = 2
    /\ {m.tick : m \in Elements(conns["ws1"].sent)} = {0, 1}
    /\ \E m \in Elements(conns["ws1"].sent) :
          /\ Len(m.message.data.news) = 10
          /\ Len(m.message.data.stocks) = 2
          /\ Len(m.message.data.indices) = 1
    /\ \E m \in Elements(conns["ws1"].sent) : Len(m.message.data.stocks) = 1
(***************************************************************************)
(* Overlapping ticks.                                                      *)
(***************************************************************************)
\* The ticks of the messages sent on connection c, in the order of the sends.
SentOrder(c) == [i \in 1..Len(conns[c].sent) |-> conns[c].sent[i].tick]

\* C18: the timer of a connection starts its next tick whenever it is armed,
\* whether or not earlier assemblies of the connection are still in flight (up
\* to the MaxTicks firings a run has), and starting it leaves those assemblies
\* in flight; a send is of the assembly that completes in that step, whatever
\* its tick.  So two assemblies of one connection are in flight at once and the
\* sends of tick N and N+1 go out in the order the assemblies complete: the
\* witness shows both orders.
C18_TicksOverlap ==
    /\ [](\A c \in Conns :
            conns[c].updateInterval = "armed" /\ conns[c].fired <= MaxTicks
                => ENABLED TimerFires(c))
    /\ [][ \A c \in Conns :
             /\ conns'[c].fired > conns[c].fired =>
                   /\ ticks \subseteq ticks'
                   /\ \E t \in ticks' \ ticks : t.conn = c /\ t.n = conns[c].fired
             /\ conns'[c].sent # conns[c].sent =>
                   \E t \in ticks \ ticks' :
                      /\ t.conn = c
                      /\ SentOrder(c)' = Append(SentOrder(c), t.n)
                      /\ { u \in ticks : u.conn = c /\ u # t } \subseteq ticks'
        ]_vars

\* Witness of C18: on one connection tick 1 was sent before tick 0 (its two
\* assemblies were in flight at once and the later one completed first), on the
\* other tick 0 before tick 1.
C18_Witness ==
    /\ SentOrder("ws1") = <<1, 0>>
    /\ SentOrder("ws2") = <<0, 1>>
(***************************************************************************)
(* The two unique columns of marketIndices.                                *)
(***************************************************************************)
\* The upsertMarketIndex calls whose statement the database runs in this step
\* (every statement run draws from the table's sequence).
IndexUpsertsRun ==
    { c \in calls \ calls' :
        c.op = "upsertMarketIndex" /\ seq'["marketIndices"] # seq["marketIndices"] }

\* C19: no two rows of marketIndices share a name or share a symbol, in any
\* reachable state; and an upsertMarketIndex of a record whose name or whose
\* symbol is that of a stored row does not fail and adds no row: afterwards the
\* table has as many rows as before and one of them carries the record's name,
\* symbol and value and the time of the call.
C19_IndexUpsertOnEitherKey ==
    /\ [](\A r1, r2 \in db["marketIndices"] :
            r1 # r2 => r1.name # r2.name /\ r1.symbol # r2.symbol)
    /\ [][ \A c \in IndexUpsertsRun :
             (\E r \in db["marketIndices"] :
                 r.name = c.arg.name \/ r.symbol = c.arg.symbol)
             => /\ Cardinality(db'["marketIndices"]) = Cardinality(db["marketIndices"])
                /\ \E r \in db'["marketIndices"] :
                      /\ r.name = c.arg.name /\ r.symbol = c.arg.symbol
                      /\ r.value = c.arg.value /\ r.updatedAt = c.at
        ]_vars
(***************************************************************************)
(* Failures of the store, at every operation boundary.                     *)
(***************************************************************************)
\* The handler of request r goes on to a further storage call in this step.
Continues(r) == "pc" \in DOMAIN r /\ Advances(r)

\* No stock has the id the request names (an id that parses to a number).
StockMissing(r) ==
    /\ "route" \in DOMAIN r /\ r.route = "stock"
    /\ ParseInt(r.id.str).type = "number"
    /\ \A stock \in db["stocks"] : stock.id # ParseInt(r.id.str).num

\* C21: every request received is in flight or has been answered once, and a
\* request in flight is answered in the end (its storage calls settle); a step
\* sends at most one response, and the step in which a handler ends sends
\* exactly one: 500 if and only if a storage call of the handler failed (the
\* catch block logged), 404 if and only if, with nothing failing, the request
\* asks for a stock whose id no stock has.  A push tick whose read fails logs,
\* leaves its connection's timer and transport as they were and touches no
\* request; a seeding whose storage call fails logs and returns, and touches
\* neither store, requests nor connections; and no rejection ever leaves its
\* handler, its tick or the seeding.
C21_FailuresStayInside ==
    /\ [](started = answered + Cardinality(reqs))
    /\ [](unhandled = {})
    /\ [][ /\ answered' \in {answered, answered + 1}
           /\ \A r \in reqs \ reqs' :
                IF Continues(r) THEN answered' = answered
                ELSE /\ answered' = answered + 1
                     /\ response'.status \in {200, 400, 403, 404, 500}
                     /\ response'.status = 500 <=> response'.logged # "none"
                     /\ response'.status = 404 <=>
                            (response'.logged = "none" /\ StockMissing(r))
           /\ \A c \in Conns : conns'[c].errors # conns[c].errors =>
                /\ conns'[c].updateInterval = conns[c].updateInterval
                /\ conns'[c].readyState = conns[c].readyState
                /\ UNCHANGED <<db, reqVars, seeding>>
           /\ seeding' # seeding =>
                /\ seeding'.pc = SeedReturned
                /\ seeding'.logged = "Error initializing sample data"
                /\ UNCHANGED <<db, reqVars, pushVars>>
      ]_vars
    /\ (reqs # {}) ~> (reqs = {})

\* Witness of C21: the seeding failed at its storage call and tick 0 at a read,
\* the timer tick after it was pushed, and the request for a stock that is not
\* stored has been answered 404 after all that.
C21_Witness ==
    /\ seeding.logged = "Error initializing sample data"
    /\ conns["ws1"].errors = {0}
    /\ SentOrder("ws1") = <<1>>
    /\ conns["ws1"].updateInterval = "armed"
    /\ response.status = 404
    /\ answered = 1 /\ reqs = {}

\* A request answered 500 by its catch block, the process serving on.
C21_Caught ==
    /\ response.status = 500 /\ response.logged = "storage unavailable"
    /\ answered = started /\ unhandled = {}
(***************************************************************************)
(* The four reads of one snapshot.                                         *)
(***************************************************************************)
\* The states table t has had: the one it started in and, once its one write
\* has been made, the one it is in.
HadStates(t) == {SampleStore(StoredArticles)[t], db[t]}

\* list is what read k makes of the table when it holds rows.
IsListOf(k, list, rows) ==
    IF k = "getNewsArticles" THEN IsNewest(list, rows, NewsPerSnapshot)
    ELSE IsFullList(list, rows)

\* C22: every sub-list of every message pushed, and every list an assembly in
\* flight has read, is the list of one state its table has had: all of that
\* state's rows (its newest articles, for the news), never a mixture of two.
C22_EachSubListIsATableState ==
    /\ \A c \in Conns : \A i \in 1..Len(conns[c].sent) : \A k \in Reads :
          \E rows \in HadStates(ReadTable(k)) :
             IsListOf(k, conns[c].sent[i].message.data[DataKey(k)], rows)
    /\ \A t \in ticks : \A k \in DOMAIN t.got :
          \E rows \in HadStates(ReadTable(k)) : IsListOf(k, t.got[k], rows)

\* Witness of C22: the rate was written at time 0 and the price at time 1, and
\* the snapshot pushed carries the new price, the later write, with the old
\* rate, which the earlier write had replaced before the price was written: the
\* four lists together are no state the store has had.
C22_Witness ==
    /\ \E pair \in db["currencyPairs"] : pair.rate = 1090000 /\ pair.updatedAt = 0
    /\ \E stock \in db["stocks"] : stock.price = 18000 /\ stock.updatedAt = 1
    /\ Len(conns["ws1"].sent) = 1
    /\ \E m \in {conns["ws1"].sent[1].message} :
          /\ \E stock \in Elements(m.data.stocks) : stock.price = 18000
          /\ \E pair \in Elements(m.data.currencies) : pair.rate = 1084200
          /\ \A pair \in Elements(m.data.currencies) : pair.rate # 1090000
(***************************************************************************)
(* Seeding, run after run.                                                 *)
(***************************************************************************)
\* The samples seeded into table t.
SamplesOf(t) ==
    CASE t = "marketIndices" -> sampleIndices
      [] t = "stocks"        -> sampleStocks
      [] t = "currencyPairs" -> sampleCurrencies

SeededSymbols(t) == { SamplesOf(t)[i].symbol : i \in 1..Len(SamplesOf(t)) }

\* The run in progress has got through all its storage calls.
SeedCompleted == seeding.logged = "Sample data initialized successfully"

\* The storage call the run awaited has resolved in this step.
SeedAdvances ==
    /\ seeding'.run = seeding.run
    /\ seeding'.pc = seeding.pc + 1
    /\ seeding'.logged # "Error initializing sample data"

\* The articles of the run that has completed: the four rows inserted last.
LastArticles == { row \in db["newsArticles"] : row.id >= seq["newsArticles"] - Len(sampleNews) }

\* The claim as stated: whenever a run has returned, every seeded symbol has
\* exactly one row and the news table holds four rows per run.
C23_EveryRunSeedsAll ==
    seeding.pc = SeedReturned =>
        /\ \A t \in UpsertTables : \A symbol \in SeededSymbols(t) :
              Cardinality(RowsOf(t, symbol)) = 1
        /\ Cardinality(db["newsArticles"]) = Len(sampleNews) * seeding.run

\* C23: however many runs there were and wherever they stopped, no seeded
\* symbol has more than one row, and none loses its row; once a run has
\* completed every seeded symbol has exactly one row, carrying the sample's
\* values, and the four rows inserted last are that run's four articles.  The
\* news table only grows: each of a run's four inserts adds one row to it, in a
\* second run as in the first, and no other step changes it; so a run that
\* completes has added four rows, and one that fails has added those inserted
\* before the failure.
C23_SeedingRepeats ==
    /\ [](\A t \in UpsertTables : \A symbol \in SeededSymbols(t) :
            Cardinality(RowsOf(t, symbol)) <= 1)
    /\ [](SeedCompleted =>
            /\ \A t \in UpsertTables : \A i \in 1..Len(SamplesOf(t)) :
                  /\ Cardinality(RowsOf(t, SamplesOf(t)[i].symbol)) = 1
                  /\ \A row \in RowsOf(t, SamplesOf(t)[i].symbol) :
                        \A f \in DOMAIN SamplesOf(t)[i] : row[f] = SamplesOf(t)[i][f]
            /\ Cardinality(LastArticles) = Len(sampleNews)
            /\ \A i \in 1..Len(sampleNews) : \E row \in LastArticles :
                  /\ row.id = seq["newsArticles"] - Len(sampleNews) + i - 1
                  /\ row.title = sampleNews[i].title
                  /\ row.publishedAt = seeding.sampled - sampleNews[i].hoursAgo)
    /\ [][ /\ \A t \in UpsertTables : \A symbol \in SeededSymbols(t) :
                Cardinality(RowsOf(t, symbol)) = 1 => Cardinality(RowsOf(t, symbol)') = 1
           /\ db["newsArticles"] \subseteq db'["newsArticles"]
           /\ IF seeding.pc \in FirstNewsStep..Len(SeedSteps) /\ SeedAdvances
              THEN Cardinality(db'["newsArticles"]) = Cardinality(db["newsArticles"]) + 1
              ELSE db'["newsArticles"] = db["newsArticles"]
           /\ SeedCompleted' /\ ~SeedCompleted => seeding.pc = Len(SeedSteps) /\ SeedAdvances
      ]_vars

\* Witness of C23: the second run has completed after a first that completed
\* too: the store holds one row each of the 4 indices, 5 stocks and 4 currency
\* pairs, and 8 articles.
C23_Witness ==
    /\ seeding.run = 2 /\ SeedCompleted
    /\ Cardinality(db["marketIndices"]) = 4
    /\ Cardinality(db["stocks"]) = 5
    /\ Cardinality(db["currencyPairs"]) = 4
    /\ Cardinality(db["newsArticles"]) = 8
(***************************************************************************)
(* Seeding against the margins an admin sets.                              *)
(***************************************************************************)
\* The storage call of a run that upserts the i-th sample pair.
PairStep(i) == Len(sampleIndices) + Len(sampleStocks) + i

\* The margins stored for symbol (one, once the pair is stored).
MarginsOf(symbol) == { row.margin : row \in RowsOf("currencyPairs", symbol) }

\* The database runs a margin update of symbol in this step, and 200 is answered.
MarginUpdateApplied(symbol) ==
    \E r \in reqs \ reqs' :
       /\ r.pc = "updateCurrencyMargin" /\ r.symbol = symbol
       /\ answered' = answered + 1 /\ response'.status = 200

\* C24: the seeding upsert of a pair leaves the pair with its seed margin (25,
\* 30, 20, 35 hundredths), whatever margin it carried; the margin stored for a
\* pair changes only in that upsert and in a margin update of that pair the
\* database runs; so from its upsert on in a run a pair carries its seed margin
\* as long as no request has been answered since the start, whatever was set
\* before the start or before the upsert, and when the run has completed a
\* pair carries a margin other than its seed margin only if a margin update was
\* applied since its upsert, and then it carries that update's margin.
C24_SeedMarginUnlessUpdatedAfter ==
    /\ [][ \A i \in 1..Len(sampleCurrencies) :
             LET symbol == sampleCurrencies[i].symbol
             IN  /\ (seeding.pc = PairStep(i) /\ SeedAdvances) =>
                        MarginsOf(symbol)' = {sampleCurrencies[i].margin}
                 /\ MarginsOf(symbol)' # MarginsOf(symbol) =>
                        \/ seeding.pc = PairStep(i) /\ SeedAdvances
                        \/ /\ MarginUpdateApplied(symbol)
                           /\ MarginsOf(symbol)' = {NumericRound(AdminMargin.num)}
      ]_vars
    /\ [](\A i \in 1..Len(sampleCurrencies) :
            (seeding.pc > PairStep(i) /\ seeding.logged # "Error initializing sample data") =>
               \/ MarginsOf(sampleCurrencies[i].symbol) = {sampleCurrencies[i].margin}
               \/ /\ answered > 0
                  /\ MarginsOf(sampleCurrencies[i].symbol) = {NumericRound(AdminMargin.num)})

\* Witness of C24: in a second run over the rows of a completed first, a margin
\* update of a stored pair was applied and answered 200, and the run has
\* completed with all four pairs at their seed margins: the update came before
\* the seeding upsert of its pair and did not survive it.
C24_Witness ==
    /\ seeding.run = 2 /\ SeedCompleted
    /\ Cardinality(db["newsArticles"]) = 2 * Len(sampleNews)
    /\ response.status = 200 /\ answered = 1
    /\ \A i \in 1..Len(sampleCurrencies) :
          MarginsOf(sampleCurrencies[i].symbol) = {sampleCurrencies[i].margin}

\* An update applied after the seeding upsert of its pair is what the pair
\* carries when the run has completed.
C24_Survived ==
    /\ SeedCompleted
    /\ response.status = 200
    /\ MarginsOf("EUR/USD") = {NumericRound(AdminMargin.num)}
====
